---------------------------- MODULE Spec2Model ----------------------------
(***************************************************************************)
(* Model of claudia (src/src/main.rs): a supervisor that drives an         *)
(* interactive child process through a PTY, classifies the child's recent  *)
(* output and injects "Continue" commands.                                 *)
(*                                                                         *)
(* A text (Rust String / &str) is a sequence of characters; a character is *)
(* a one-character string, except the non-ASCII characters, which are      *)
(* named by their code point ("U+00E9").                                   *)
(***************************************************************************)
EXTENDS Integers, Sequences, FiniteSets, TLC

VARIABLES
    output_buffer,      \* Claudia.output_buffer: the output window
    last_output_age,    \* last_output_time.elapsed(): seconds since last_output_time
    continue_count,     \* Claudia.continue_count
    response_history,   \* Claudia.response_history
    md_file,            \* content of the task document, or Unreadable
    child,              \* the child process: "running", "exited", "killed"
    reader,             \* the output thread: "reading", "ended"
    user_rx,            \* the channel of relayed keystrokes (input thread -> run)
    pc,                 \* position of Claudia::run
    buffer,             \* run's local: the window snapshot of this tick
    time_since_output,  \* run's local: elapsed time read in this tick
    sent,               \* the writes run made to the child's input in this tick
    continues_written,  \* number of "Continue" texts written to the child
    summary,            \* the total printed by the final summary, or NoNumber
    status,             \* Claudia.status: the text of the status box
    received,           \* the chunks pushed into the window since its last clear
    now,                \* Local::now(), seconds since local midnight of day 0
    wait_until,         \* result of check_usage_limit, or NoNumber
    remaining,          \* wait_for_limit_reset's local
    passes,             \* how often ensure_checkboxes has run on md_file
    wrote,              \* whether the last ensure_checkboxes pass wrote the file
    completed,          \* the oracle's last answer on the file as it stands, or NoValue
    is_tty,             \* std::io::stdin().is_terminal()
    raw_mode,           \* whether the terminal is in raw mode
    writer,             \* the handle on the child's input: "none", "open", "dropped"
    should_exit,        \* the flag that tells the input thread to stop
    interrupt,          \* position of the interrupt handling: "none", "handling", "restored"
    since_event,        \* seconds since the latest byte, relayed key or command
    held,               \* the locks the thread of run holds
    reader_held,        \* the locks the output thread holds
    lock_ops,           \* the lock operations run has still to do in its current step
    input_thread        \* the input thread at its should_exit test: "none", "polling", "checking", "stopped"

vars == <<output_buffer, last_output_age, continue_count, response_history,
          md_file, child, reader, user_rx, pc, buffer, time_since_output,
          sent, continues_written, summary, status, received, now, wait_until,
          remaining, passes, wrote, completed, is_tty, raw_mode, writer,
          should_exit, interrupt, since_event, held, reader_held, lock_ops,
          input_thread>>

\* "no character", "no result yet"
NoValue == "none"
\* Option::None of a text, a tuple or a capture
None == <<>>
\* Option::None of a timestamp or a count
NoNumber == 0 - 1
\* what stands for the file's content when fs::read_to_string returns Err
Unreadable == <<"<unreadable>">>

---------------------------------------------------------------------------
(* Characters and strings                                                  *)

\* char::to_lowercase on the capital letters of the model's alphabet
LowerOf ==
    "A" :> "a" @@ "B" :> "b" @@ "C" :> "c" @@ "D" :> "d" @@ "E" :> "e" @@ "F" :> "f" @@ "G" :> "g" @@
    "H" :> "h" @@ "I" :> "i" @@ "J" :> "j" @@ "K" :> "k" @@ "L" :> "l" @@ "M" :> "m" @@ "N" :> "n" @@
    "O" :> "o" @@ "P" :> "p" @@ "Q" :> "q" @@ "R" :> "r" @@ "S" :> "s" @@ "T" :> "t" @@ "U" :> "u" @@
    "V" :> "v" @@ "W" :> "w" @@ "X" :> "x" @@ "Y" :> "y" @@ "Z" :> "z"

\* char::to_lowercase on the characters of the model's alphabet
LowerChar(c) == IF c \in DOMAIN LowerOf THEN LowerOf[c] ELSE c

\* str::to_lowercase (SubSeq makes the result a tuple, evaluated once)
to_lowercase(s) == SubSeq([i \in 1..Len(s) |-> LowerChar(s[i])], 1, Len(s))

\* number of bytes of the UTF-8 encoding of a character
Utf8Len(c) ==
    CASE c = "U+00E9" -> 2
      [] c = "U+2713" -> 3
      [] c = "U+FFFD" -> 3
      [] OTHER -> 1

\* str::len: the length in bytes
ByteLen(s) ==
    Cardinality({i \in 1..Len(s) : Utf8Len(s[i]) >= 1})
    + Cardinality({i \in 1..Len(s) : Utf8Len(s[i]) >= 2})
    + Cardinality({i \in 1..Len(s) : Utf8Len(s[i]) >= 3})

\* str::chars().count()
CharCount(s) == Len(s)

Digits == {"0","1","2","3","4","5","6","7","8","9"}

IsDigit(c) == c \in Digits

Whitespace == {" ", "\n", "\t", "\r"}

\* char::is_whitespace on the model's alphabet
IsSpace(c) == c \in Whitespace

DigitVal(c) ==
    CASE c = "0" -> 0 [] c = "1" -> 1 [] c = "2" -> 2 [] c = "3" -> 3
      [] c = "4" -> 4 [] c = "5" -> 5 [] c = "6" -> 6 [] c = "7" -> 7
      [] c = "8" -> 8 [] c = "9" -> 9

\* the character at position i, or NoValue past the end
At(s, i) == IF i >= 1 /\ i <= Len(s) THEN s[i] ELSE NoValue

\* whether pat occurs in s at position i
OccursAt(s, pat, i) ==
    /\ i >= 1
    /\ i + Len(pat) - 1 <= Len(s)
    /\ \A k \in 1..Len(pat) : s[i + k - 1] = pat[k]

\* str::contains
Contains(s, pat) == \E i \in 1..(Len(s) - Len(pat) + 1) : OccursAt(s, pat, i)

\* str::starts_with
StartsWith(s, pat) == OccursAt(s, pat, 1)

\* str::ends_with
EndsWith(s, pat) == OccursAt(s, pat, Len(s) - Len(pat) + 1)

\* the text from position i to the end
From(s, i) == SubSeq(s, i, Len(s))

\* Claudia::safe_suffix: the last max_chars characters of s
safe_suffix(s, max_chars) ==
    LET char_count == CharCount(s)
    IN  IF char_count <= max_chars
        THEN s
        ELSE From(s, (char_count - max_chars) + 1)

\* str::trim_start
trim_start(s) ==
    IF \A i \in 1..Len(s) : IsSpace(s[i])
    THEN <<>>
    ELSE From(s, CHOOSE i \in 1..Len(s) :
                    /\ ~IsSpace(s[i])
                    /\ \A k \in 1..(i - 1) : IsSpace(s[k]))

\* str::trim
trim(s) ==
    LET t == trim_start(s)
    IN  IF t = <<>>
        THEN <<>>
        ELSE SubSeq(t, 1, CHOOSE j \in 1..Len(t) :
                             /\ ~IsSpace(t[j])
                             /\ \A k \in (j + 1)..Len(t) : IsSpace(t[k]))

---------------------------------------------------------------------------
(* Pattern classifiers                                                     *)

KW_USAGE_LIMIT == <<"u","s","a","g","e"," ","l","i","m","i","t">>
KW_RATE_LIMIT == <<"r","a","t","e"," ","l","i","m","i","t">>
KW_TRY_AGAIN == <<"t","r","y"," ","a","g","a","i","n">>
KW_PLEASE_WAIT == <<"p","l","e","a","s","e"," ","w","a","i","t">>
ESC_TO_INTERRUPT == <<"e","s","c"," ","t","o"," ","i","n","t","e","r","r","u","p","t">>
BYPASS_MODE_LOWER == <<"b","y","p","a","s","s"," ","p","e","r","m","i","s","s","i","o","n","s"," ","m","o","d","e">>
NO_EXIT_LOWER == <<"1","."," ","n","o",","," ","e","x","i","t">>
YES_ACCEPT_LOWER == <<"2","."," ","y","e","s",","," ","i"," ","a","c","c","e","p","t">>
WARNING_BANNER == <<"W","A","R","N","I","N","G",":"," ","C","l","a","u","d","e"," ","C","o","d","e"," ","r","u","n","n","i","n","g"," ","i","n"," ","B","y","p","a","s","s"," ","P","e","r","m","i","s","s","i","o","n","s"," ","m","o","d","e">>
NO_EXIT == <<"1","."," ","N","o",","," ","e","x","i","t">>
YES_ACCEPT == <<"2","."," ","Y","e","s",","," ","I"," ","a","c","c","e","p","t">>
EMPTY_RESPONSE == <<"E","M","P","T","Y","_","R","E","S","P","O","N","S","E">>
CONTINUE == <<"C","o","n","t","i","n","u","e">>
ACCEPT == <<"2">>
CR == <<"\r">>

\* the texts update_status is called with
STATUS_STARTING == "Starting..."
STATUS_WORKING == "Claude is working..."
STATUS_EXITED == "Claude process exited with status: ..."
STATUS_ACCEPTING == "Detected bypass permissions prompt, accepting..."
STATUS_ALL_DONE == "All tasks completed! Exiting..."
STATUS_STUCK == "Detected repeated pattern. Claude may be stuck. Exiting..."
STATUS_CEILING == "Maximum continue limit reached. Exiting..."

UsageWindow == 2000
PromptWindow == 1500
BusyWindow == 200
PatternWindow == 500
MinResponseLen == 10

\* a keyword test that lets every text pass
HasLimitKeyword_Always(recent_lower) == TRUE

\* the keyword test of check_usage_limit, on the lower-cased recent text
HasLimitKeyword(recent_lower) ==
    \/ Contains(recent_lower, KW_USAGE_LIMIT)
    \/ Contains(recent_lower, KW_RATE_LIMIT)
    \/ Contains(recent_lower, KW_TRY_AGAIN)
    \/ Contains(recent_lower, KW_PLEASE_WAIT)

\* The alternatives of (\d{1,2})([:.]?\d{0,2}) in the order a leftmost-first
\* regex engine tries them: <<hour digits, separator present, minute digits>>,
\* every quantifier greedy.
TimeShapes ==
    <<<<2,1,2>>, <<2,1,1>>, <<2,1,0>>, <<2,0,2>>, <<2,0,1>>, <<2,0,0>>,
      <<1,1,2>>, <<1,1,1>>, <<1,1,0>>, <<1,0,2>>, <<1,0,1>>, <<1,0,0>>>>

\* the first position at or after j that holds no whitespace (\s*)
SkipSpace(s, j) ==
    CHOOSE k \in j..(Len(s) + 1) :
        /\ ~IsSpace(At(s, k))
        /\ \A l \in j..(k - 1) : IsSpace(s[l])

\* \s*([ap]\.?m) matches s from position j on
MeridiemAt(s, j) ==
    LET k == SkipSpace(s, j)
    IN  /\ At(s, k) \in {"a", "p"}
        /\ \/ At(s, k + 1) = "m"
           \/ At(s, k + 1) = "." /\ At(s, k + 2) = "m"

\* the time pattern matches at position i with the given shape
ShapeMatchesAt(s, i, shape) ==
    LET nh == shape[1]
        sep == shape[2]
        nm == shape[3]
    IN  /\ \A k \in 0..(nh - 1) : IsDigit(At(s, i + k))
        /\ sep = 1 => At(s, i + nh) \in {":", "."}
        /\ \A k \in 0..(nm - 1) : IsDigit(At(s, i + nh + sep + k))
        /\ MeridiemAt(s, i + nh + sep + nm)

\* the time pattern matches at position i: every alternative starts on a digit
TimeMatchesAt(s, i) ==
    /\ IsDigit(At(s, i))
    /\ \E n \in 1..Len(TimeShapes) : ShapeMatchesAt(s, i, TimeShapes[n])

\* the position of the leftmost match of the time pattern in s
leftmost_match(s) ==
    CHOOSE p \in 1..Len(s) :
        /\ TimeMatchesAt(s, p)
        /\ \A q \in 1..(p - 1) : ~TimeMatchesAt(s, q)

\* the alternative the engine settles on at position i
preferred_shape(s, i) ==
    TimeShapes[CHOOSE m \in 1..Len(TimeShapes) :
                  /\ ShapeMatchesAt(s, i, TimeShapes[m])
                  /\ \A q \in 1..(m - 1) : ~ShapeMatchesAt(s, i, TimeShapes[q])]

\* the capture groups of the match at position i with the given shape
captures_of(s, i, shape) ==
    <<SubSeq(s, i, i + shape[1] - 1),
      SubSeq(s, i + shape[1], i + shape[1] + shape[2] + shape[3] - 1),
      At(s, SkipSpace(s, i + shape[1] + shape[2] + shape[3]))>>

captures_at(s, i) == captures_of(s, i, preferred_shape(s, i))

\* Regex::captures of (\d{1,2})([:.]?\d{0,2})\s*([ap]\.?m): the leftmost match,
\* as <<hour, minutes_part, am_pm>> (am_pm by its first character), or None
time_pattern_captures(s) ==
    IF ~\E i \in 1..Len(s) : TimeMatchesAt(s, i)
    THEN None
    ELSE captures_at(s, leftmost_match(s))

\* str::parse::<u32> of one or two decimal digits
ParseU32(digits) ==
    IF Len(digits) = 1
    THEN DigitVal(digits[1])
    ELSE 10 * DigitVal(digits[1]) + DigitVal(digits[2])

\* minutes of check_usage_limit, from capture group 2
MinutesOf(minutes_part) ==
    IF Len(minutes_part) > 1
    THEN LET digits == IF minutes_part[1] \in {":", "."}
                       THEN From(minutes_part, 2)
                       ELSE minutes_part
         IN  ParseU32(digits)
    ELSE 0

\* hour_24 of check_usage_limit
Hour24(hour, am_pm) ==
    IF am_pm = "p" /\ hour # 12
    THEN hour + 12
    ELSE IF am_pm = "a" /\ hour = 12
         THEN 0
         ELSE hour

\* NaiveTime::from_hms_opt(hour, min, 0) is Some
ValidTime(hour, min) == hour < 24 /\ min < 60

\* The clock time check_usage_limit reads from the window, as <<hour_24,
\* minutes>>, or None where check_usage_limit returns None.
usage_limit_time(buf) ==
    LET recent == safe_suffix(buf, UsageWindow)
        recent_lower == to_lowercase(recent)
    IN  IF ~HasLimitKeyword(recent_lower)
        THEN None
        ELSE LET captures == time_pattern_captures(recent_lower)
             IN  IF captures = None
                 THEN None
                 ELSE LET hour == ParseU32(captures[1])
                          minutes == MinutesOf(captures[2])
                          hour_24 == Hour24(hour, captures[3])
                      IN  IF ValidTime(hour_24, minutes)
                          THEN <<hour_24, minutes>>
                          ELSE None

SecondsPerDay == 86400

\* now.date_naive().and_time(time), in seconds since local midnight of day 0
TodayAt(time, t) == (t \div SecondsPerDay) * SecondsPerDay + time[1] * 3600 + time[2] * 60

\* the resume timestamp rolled forward only when today's is before now
ResolveWaitUntil_RollIfBefore(time, t) ==
    IF TodayAt(time, t) < t
    THEN TodayAt(time, t) + SecondsPerDay
    ELSE TodayAt(time, t)

\* the resume timestamp: today at the clock time, rolled one day forward when
\* that is not after now
ResolveWaitUntil(time, t) ==
    IF TodayAt(time, t) <= t
    THEN TodayAt(time, t) + SecondsPerDay
    ELSE TodayAt(time, t)

\* Claudia::check_usage_limit at the instant t: the resume timestamp, or
\* NoNumber for None
check_usage_limit(buf, t) ==
    LET time == usage_limit_time(buf)
    IN  IF time = None THEN NoNumber ELSE ResolveWaitUntil(time, t)

\* Claudia::is_claude_running
is_claude_running(buf) ==
    LET recent == safe_suffix(buf, BusyWindow)
    IN  Contains(to_lowercase(recent), ESC_TO_INTERRUPT)

\* Claudia::check_bypass_permissions_prompt
check_bypass_permissions_prompt(buf) ==
    LET recent == safe_suffix(buf, PromptWindow)
        recent_lower == to_lowercase(recent)
    IN  \/ /\ Contains(recent_lower, BYPASS_MODE_LOWER)
           /\ Contains(recent_lower, NO_EXIT_LOWER)
           /\ Contains(recent_lower, YES_ACCEPT_LOWER)
        \/ /\ Contains(recent, WARNING_BANNER)
           /\ (Contains(recent, NO_EXIT) \/ Contains(recent, YES_ACCEPT))

---------------------------------------------------------------------------
(* The output window                                                       *)

WindowCap == 2000

\* usize::saturating_sub
saturating_sub(a, b) == IF a >= b THEN a - b ELSE 0

\* the window cut to 2000 bytes' worth of characters instead of 2000 characters
push_output_CutByBytes(window, output) ==
    LET pushed == window \o output
    IN  IF ByteLen(pushed) > WindowCap
        THEN LET skip_chars == saturating_sub(ByteLen(pushed), WindowCap)
             IN  From(pushed, skip_chars + 1)
        ELSE pushed

\* The output thread's update of the window by one decoded chunk:
\* push_str, then keep only the recent output.
push_output(window, output) ==
    LET pushed == window \o output
    IN  IF ByteLen(pushed) > WindowCap
        THEN LET skip_chars == saturating_sub(CharCount(pushed), WindowCap)
             IN  From(pushed, skip_chars + 1)
        ELSE pushed

---------------------------------------------------------------------------
(* The repetition detector                                                 *)

HistoryCap == 3

\* the entry check_repeated_pattern records for a window snapshot
normalized_response(current_buffer) ==
    LET normalized == trim(safe_suffix(current_buffer, PatternWindow))
    IN  IF ByteLen(normalized) < MinResponseLen
        THEN EMPTY_RESPONSE
        ELSE normalized

\* a history that is never trimmed
pushed_history_NoDrop(history, current_buffer) ==
    Append(history, normalized_response(current_buffer))

\* the history after check_repeated_pattern's push and trim to three entries
pushed_history(history, current_buffer) ==
    LET h == Append(history, normalized_response(current_buffer))
    IN  IF Len(h) > HistoryCap THEN Tail(h) ELSE h

\* a detector that gives up on two identical entries in a row
history_stuck_TwoInARow(h) ==
    /\ Len(h) >= 2
    /\ h[Len(h)] = h[Len(h) - 1]

\* the value check_repeated_pattern returns, on the history it has updated
history_stuck(h) ==
    /\ Len(h) >= 3
    /\ \/ h[1] = h[2] /\ h[2] = h[3]
       \/ \A i \in 1..Len(h) : h[i] = EMPTY_RESPONSE

\* Claudia::check_repeated_pattern: the updated history and the result
check_repeated_pattern(history, current_buffer) ==
    LET h == pushed_history(history, current_buffer)
    IN  [history |-> h, stuck |-> history_stuck(h)]

---------------------------------------------------------------------------
(* The task document                                                       *)

UNCHECKED == <<"[", " ", "]">>
CHECKED_LOWER == <<"[", "x", "]">>
CHECKED_UPPER == <<"[", "X", "]">>
NEWLINE == <<"\n">>

\* str::matches(pat).count(); occurrences of these patterns never overlap
MatchCount(s, pat) == Cardinality({i \in 1..Len(s) : OccursAt(s, pat, i)})

\* the oracle without the test for unchecked markers
check_all_tasks_completed_AnyChecked(file) ==
    IF file = Unreadable
    THEN FALSE
    ELSE MatchCount(file, CHECKED_LOWER) + MatchCount(file, CHECKED_UPPER) > 0

\* Claudia::check_all_tasks_completed on what fs::read_to_string returns
check_all_tasks_completed(file) ==
    IF file = Unreadable
    THEN FALSE
    ELSE LET unchecked == MatchCount(file, UNCHECKED)
             checked == MatchCount(file, CHECKED_LOWER) + MatchCount(file, CHECKED_UPPER)
         IN  checked > 0 /\ unchecked = 0

\* position of the first occurrence of pat in s, or 0 (str::find)
Find(s, pat) ==
    IF Contains(s, pat)
    THEN CHOOSE i \in 1..Len(s) :
            /\ OccursAt(s, pat, i)
            /\ \A k \in 1..(i - 1) : ~OccursAt(s, pat, k)
    ELSE 0

RECURSIVE Replace(_, _, _)
\* str::replace: every non-overlapping occurrence, left to right
Replace(s, pat, to) ==
    LET i == Find(s, pat)
    IN  IF i = 0
        THEN s
        ELSE SubSeq(s, 1, i - 1) \o to \o Replace(From(s, i + Len(pat)), pat, to)

\* a line without the carriage return that ends it
StripCR(line) ==
    IF EndsWith(line, <<"\r">>) THEN SubSeq(line, 1, Len(line) - 1) ELSE line

RECURSIVE Lines(_)
\* str::lines
Lines(s) ==
    IF s = <<>>
    THEN <<>>
    ELSE LET i == Find(s, NEWLINE)
         IN  IF i = 0
             THEN <<s>>
             ELSE <<StripCR(SubSeq(s, 1, i - 1))>> \o Lines(From(s, i + 1))

\* " ".repeat(n)
Spaces(n) == [i \in 1..n |-> " "]

DASH == <<"-", " ">>
STAR == <<"*", " ">>
PLUS == <<"+", " ">>
DOT == <<".", " ">>
DASH_BOX == <<"-", " ", "[", " ", "]", " ">>
STAR_BOX == <<"*", " ", "[", " ", "]", " ">>
PLUS_BOX == <<"+", " ", "[", " ", "]", " ">>

\* the test "is a list item" of ensure_checkboxes
IsListItem(trimmed) ==
    \/ StartsWith(trimmed, DASH)
    \/ StartsWith(trimmed, STAR)
    \/ StartsWith(trimmed, PLUS)
    \/ (trimmed # <<>> /\ IsDigit(trimmed[1]))

\* the test "already has a checkbox" of ensure_checkboxes
HasCheckbox(trimmed) ==
    \/ Contains(trimmed, DASH \o UNCHECKED)
    \/ Contains(trimmed, DASH \o CHECKED_LOWER)
    \/ Contains(trimmed, DASH \o CHECKED_UPPER)
    \/ Contains(trimmed, STAR \o UNCHECKED)
    \/ Contains(trimmed, STAR \o CHECKED_LOWER)
    \/ Contains(trimmed, STAR \o CHECKED_UPPER)

\* one iteration of ensure_checkboxes' loop: the line pushed to new_content
\* and whether it sets modified
checkbox_line(line) ==
    LET trimmed == trim_start(line)
    IN  IF IsListItem(trimmed) /\ ~HasCheckbox(trimmed)
        THEN IF StartsWith(trimmed, DASH)
             THEN [text |-> Replace(line, DASH, DASH_BOX), modified |-> TRUE]
             ELSE IF StartsWith(trimmed, STAR)
             THEN [text |-> Replace(line, STAR, STAR_BOX), modified |-> TRUE]
             ELSE IF StartsWith(trimmed, PLUS)
             THEN [text |-> Replace(line, PLUS, PLUS_BOX), modified |-> TRUE]
             ELSE IF Find(trimmed, DOT) # 0
             THEN LET pos == Find(trimmed, DOT)
                      rest == From(trimmed, pos + 2)
                  IN  [text |-> Spaces(ByteLen(line) - ByteLen(trimmed)) \o DASH_BOX \o rest,
                       modified |-> TRUE]
             ELSE [text |-> line, modified |-> FALSE]
        ELSE [text |-> line, modified |-> FALSE]

RECURSIVE JoinLines(_)
\* new_content after the loop: every processed line followed by a newline
JoinLines(lines) ==
    IF lines = <<>>
    THEN <<>>
    ELSE checkbox_line(Head(lines)).text \o NEWLINE \o JoinLines(Tail(lines))

\* Claudia::ensure_checkboxes on a readable file: the new content, and whether
\* the file is written
ensure_checkboxes(content) ==
    LET lines == Lines(content)
        joined == JoinLines(lines)
        new_content == IF ~EndsWith(content, NEWLINE) /\ EndsWith(joined, NEWLINE)
                       THEN SubSeq(joined, 1, Len(joined) - 1)
                       ELSE joined
        modified == \E i \in 1..Len(lines) : checkbox_line(lines[i]).modified
    IN  [content |-> IF modified THEN new_content ELSE content,
         modified |-> modified]

---------------------------------------------------------------------------
(* State shared by the specifications                                      *)

supVars == <<output_buffer, last_output_age, continue_count, response_history,
             child, reader, user_rx, pc, buffer, time_since_output, sent,
             continues_written, summary, status>>
docVars == <<md_file, passes, wrote, completed>>
clockVars == <<now, wait_until, remaining>>

\* Claudia::new, before run has spawned anything
NewClaudia ==
    /\ output_buffer = <<>>
    /\ last_output_age = 0
    /\ continue_count = 0
    /\ response_history = <<>>
    /\ child = "unspawned"
    /\ reader = "unspawned"
    /\ user_rx = <<>>
    /\ pc = "start"
    /\ buffer = <<>>
    /\ time_since_output = 0
    /\ sent = <<>>
    /\ continues_written = 0
    /\ summary = NoNumber
    /\ status = STATUS_STARTING

termVars == <<is_tty, raw_mode, writer, should_exit, interrupt>>
lockVars == <<held, reader_held, lock_ops, input_thread>>

\* before run: no terminal mode set, no handle, no interrupt, no lock held
NoSession ==
    /\ is_tty = FALSE
    /\ should_exit = FALSE
    /\ raw_mode = FALSE
    /\ writer = "none"
    /\ interrupt = "none"
    /\ since_event = 0
    /\ held = {}
    /\ reader_held = {}
    /\ lock_ops = <<>>
    /\ input_thread = "none"

NoDocumentRun == passes = 0 /\ wrote = FALSE /\ completed = NoValue
NoClock == now = 0 /\ wait_until = NoNumber /\ remaining = 0

---------------------------------------------------------------------------
(* The task document: normalization pass and completion oracle             *)

MaxDocLines == 2
MaxPasses == 2
MaxDocLen == 20

DocLines ==
    { <<"-"," ","a">>,
      <<"*"," ","a">>,
      <<"+"," ","a">>,
      <<"1","."," ","a">>,
      <<"-"," ","["," ","]"," ","a">>,
      <<"-"," ","[","x","]"," ","a">>,
      <<"*"," ","[","X","]"," ","a">>,
      <<" "," ","+"," ","b">>,
      <<"n","o","t","e">>,
      <<"-"," ","a"," ","-"," ","b">> }

RECURSIVE Document(_, _)
\* the file made of the given lines, with or without a final newline
Document(lines, final_newline) ==
    IF lines = <<>>
    THEN <<>>
    ELSE IF Len(lines) = 1
         THEN Head(lines) \o (IF final_newline THEN NEWLINE ELSE <<>>)
         ELSE Head(lines) \o NEWLINE \o Document(Tail(lines), final_newline)

Documents ==
    { Document(ls, nl) :
        ls \in UNION { [1..n -> DocLines] : n \in 0..MaxDocLines },
        nl \in BOOLEAN }

\* one run of the pre-flight pass (run, line 112) on the file as it stands;
\* passes counts the runs since the file was last edited by someone else
EnsureCheckboxes ==
    /\ md_file # Unreadable
    /\ passes < MaxPasses
    /\ Len(md_file) <= MaxDocLen
    /\ LET r == ensure_checkboxes(md_file)
       IN  /\ md_file' = r.content
           /\ wrote' = r.modified
    /\ passes' = passes + 1
    /\ completed' = NoValue
    /\ UNCHANGED <<supVars, clockVars, received>>
    /\ UNCHANGED <<termVars, lockVars, since_event>>

\* the child follows the initial prompt: it changes one "[ ]" to "[x]"
ChildChecksTask ==
    /\ md_file # Unreadable
    /\ \E i \in 1..Len(md_file) :
          /\ OccursAt(md_file, UNCHECKED, i)
          /\ md_file' = [md_file EXCEPT ![i + 1] = "x"]
    /\ passes' = 0
    /\ wrote' = FALSE
    /\ completed' = NoValue
    /\ UNCHANGED <<supVars, clockVars, received>>
    /\ UNCHANGED <<termVars, lockVars, since_event>>

\* the file is removed or made unreadable
DocumentLost ==
    /\ md_file # Unreadable
    /\ md_file' = Unreadable
    /\ passes' = 0
    /\ wrote' = FALSE
    /\ completed' = NoValue
    /\ UNCHANGED <<supVars, clockVars, received>>
    /\ UNCHANGED <<termVars, lockVars, since_event>>

\* one consultation of the oracle: the file is read afresh
ConsultOracle ==
    /\ completed' = IF check_all_tasks_completed(md_file) THEN "complete" ELSE "incomplete"
    /\ UNCHANGED <<md_file, passes, wrote>>
    /\ UNCHANGED <<supVars, clockVars, received>>
    /\ UNCHANGED <<termVars, lockVars, since_event>>

InitDoc ==
    /\ NewClaudia
    /\ NoDocumentRun
    /\ NoSession
    /\ NoClock
    /\ received = <<>>
    /\ md_file \in Documents

NextDoc ==
    \/ EnsureCheckboxes
    \/ ChildChecksTask
    \/ DocumentLost
    \/ ConsultOracle

SpecDoc == InitDoc /\ [][NextDoc]_vars

\* C6: whenever the oracle has been consulted on the file as it stands, it
\* has reported complete if and only if the file is readable, holds no
\* unchecked marker "[ ]" and holds at least one checked marker "[x]" or
\* "[X]"; so a file with a "[ ]", a file without markers and an unreadable
\* file are reported incomplete, and a file whose last "[ ]" was flipped to
\* "[x]" is reported complete by the next consultation.
C6_OracleCompleteIffAllChecked ==
    completed # NoValue =>
        (completed = "complete" <=>
            /\ md_file # Unreadable
            /\ ~Contains(md_file, UNCHECKED)
            /\ (Contains(md_file, CHECKED_LOWER) \/ Contains(md_file, CHECKED_UPPER)))

\* a consultation after the child flipped the last "[ ]" reports complete
C6_Witness ==
    /\ completed = "complete"
    /\ passes = 0
    /\ Contains(md_file, CHECKED_LOWER)
    /\ md_file \notin Documents

\* C10: the normalization pass is idempotent: a second pass on the output of
\* a first pass (no edit in between) does not write the file.
C10_SecondPassWritesNothing == passes >= 2 => ~wrote

---------------------------------------------------------------------------
(* Usage-limit detection on the window snapshot of a tick                  *)

MaxFragments == 2
MaxDay == 1

\* pieces of child output around a usage-limit message
LimitFragments ==
    { <<"u","s","a","g","e"," ","l","i","m","i","t"," ">>,
      <<"R","a","t","e"," ","L","i","m","i","t"," ">>,
      <<"p","l","e","a","s","e"," ","w","a","i","t"," ">>,
      <<"T","r","y"," ","a","g","a","i","n"," ","a","t"," ">>,
      <<"3","p","m">>,
      <<"1","2",":","3","0"," ","A","M">>,
      <<"1","3","p","m">>,
      <<"1","3","a","m">>,
      <<"7",":","9","9"," ","p",".","m">>,
      <<"9",".","0","5"," ","p",".","m",".">>,
      <<"1","1",":","5","9","p","m">> }

\* instants at which a tick may run: around 3pm and around midnight
ClockSamples == {0, 54000, 54001, 86399}
Instants == { d * SecondsPerDay + c : d \in 0..MaxDay, c \in ClockSamples }

\* the output thread appends one decoded chunk to the window
UsageReceive ==
    /\ pc = "loop"
    /\ Len(received) < MaxFragments
    /\ \E chunk \in LimitFragments :
          /\ output_buffer' = push_output(output_buffer, chunk)
          /\ received' = Append(received, chunk)
    /\ last_output_age' = 0
    /\ UNCHANGED <<continue_count, response_history, child, reader, user_rx, pc,
                   buffer, time_since_output, sent, continues_written, summary,
                   status>>
    /\ UNCHANGED <<docVars, clockVars>>
    /\ UNCHANGED <<termVars, lockVars, since_event>>

\* run, line 310: the window snapshot of this tick
UsageSnapshot ==
    /\ pc = "loop"
    /\ buffer' = output_buffer
    /\ pc' = "classify"
    /\ UNCHANGED <<output_buffer, last_output_age, continue_count, response_history,
                   child, reader, user_rx, time_since_output, sent,
                   continues_written, summary,
                   status>>
    /\ UNCHANGED <<docVars, clockVars, received>>
    /\ UNCHANGED <<termVars, lockVars, since_event>>

\* run, line 314: check_usage_limit on the snapshot
UsageCheck ==
    /\ pc = "classify"
    /\ wait_until' = check_usage_limit(buffer, now)
    /\ pc' = "checked"
    /\ UNCHANGED <<output_buffer, last_output_age, continue_count, response_history,
                   child, reader, user_rx, buffer, time_since_output, sent,
                   continues_written, summary,
                   status>>
    /\ UNCHANGED <<docVars, now, remaining, received>>
    /\ UNCHANGED <<termVars, lockVars, since_event>>

\* the tick ends (after a detection, with the window cleared by the resume)
\* and the next one starts at a later instant
UsageNextTick ==
    /\ pc = "checked"
    /\ pc' = "loop"
    /\ \E t \in Instants : t >= now /\ now' = t
    /\ wait_until' = NoNumber
    /\ buffer' = <<>>
    /\ IF wait_until # NoNumber
       THEN output_buffer' = <<>> /\ received' = <<>>
       ELSE UNCHANGED <<output_buffer, received>>
    /\ UNCHANGED <<last_output_age, continue_count, response_history, child, reader,
                   user_rx, time_since_output, sent, continues_written, summary,
                   status>>
    /\ UNCHANGED <<docVars, remaining>>
    /\ UNCHANGED <<termVars, lockVars, since_event>>

InitUsage ==
    /\ output_buffer = <<>>
    /\ last_output_age = 0
    /\ continue_count = 0
    /\ response_history = <<>>
    /\ child = "running"
    /\ reader = "reading"
    /\ user_rx = <<>>
    /\ pc = "loop"
    /\ buffer = <<>>
    /\ time_since_output = 0
    /\ sent = <<>>
    /\ continues_written = 0
    /\ summary = NoNumber
    /\ status = STATUS_STARTING
    /\ received = <<>>
    /\ md_file = <<>>
    /\ NoDocumentRun
    /\ NoSession
    /\ now \in Instants
    /\ wait_until = NoNumber
    /\ remaining = 0

NextUsage ==
    \/ UsageReceive
    \/ UsageSnapshot
    \/ UsageCheck
    \/ UsageNextTick

SpecUsage == InitUsage /\ [][NextUsage]_vars

\* the text holds one of the four keywords, in any letter case
KeywordIn(text) ==
    \E kw \in {KW_USAGE_LIMIT, KW_RATE_LIMIT, KW_TRY_AGAIN, KW_PLEASE_WAIT} :
        Contains(to_lowercase(text), kw)

\* the text holds a clock-time expression: one or two digits, an optional
\* ":" or ".", up to two digits, optional whitespace, "a" or "p", an optional
\* ".", "m" (in any letter case)
ClockTimeIn(text) ==
    LET s == to_lowercase(text)
    IN  \E d \in 1..Len(s) :
            /\ s[d] \in {"a", "p"}
            /\ \E dot \in 0..1 :
                  /\ dot = 1 => At(s, d + 1) = "."
                  /\ At(s, d + 1 + dot) = "m"
            /\ \E c \in 1..d :
                  /\ \A k \in c..(d - 1) : IsSpace(s[k])
                  /\ \E nh \in 1..2, sep \in 0..1, nm \in 0..2 :
                        LET i == c - nm - sep - nh
                        IN  /\ i >= 1
                            /\ \A k \in i..(i + nh - 1) : IsDigit(s[k])
                            /\ sep = 1 => s[i + nh] \in {":", "."}
                            /\ \A k \in (c - nm)..(c - 1) : IsDigit(s[k])

\* C8: check_usage_limit returns a resume time only if the window snapshot
\* holds one of the keywords (case-insensitively) and a clock-time
\* expression: a keyword without a time and a time without a keyword both
\* yield None.
C8_DetectionNeedsKeywordAndTime ==
    pc = "checked" =>
        /\ wait_until # NoNumber => KeywordIn(buffer) /\ ClockTimeIn(buffer)
        /\ KeywordIn(buffer) /\ ~ClockTimeIn(buffer) => wait_until = NoNumber
        /\ ClockTimeIn(buffer) /\ ~KeywordIn(buffer) => wait_until = NoNumber

\* a detection, on a window that holds a keyword and a time
C8_Witness ==
    /\ pc = "checked"
    /\ wait_until # NoNumber
    /\ Contains(to_lowercase(buffer), KW_RATE_LIMIT)
    /\ ClockTimeIn(buffer)

---------------------------------------------------------------------------
(* The output window under reader pushes and supervisor clears             *)

MaxPushes == 3

\* a chunk of n characters that repeats the given characters in turn
Repeating(n, chars) == SubSeq([i \in 1..n |-> chars[(i % Len(chars)) + 1]], 1, n)

\* Decoded chunks of one read (at most 4096 bytes): ASCII text of 1, 999, 2000
\* and 2001 characters, and text with two- and three-byte characters of 700
\* characters (1400 bytes) and 1500 characters (3000 bytes).
WindowChunks ==
    { Repeating(1, <<"a", "b", "c">>),
      Repeating(999, <<"a", "b", "c">>),
      Repeating(2000, <<"a", "b", "c">>),
      Repeating(2001, <<"a", "b", "c">>),
      Repeating(700, <<"a", "U+00E9", "U+2713">>),
      Repeating(1500, <<"a", "U+00E9", "U+2713">>) }

\* the output thread pushes one decoded chunk (lines 249-266)
WindowPush ==
    /\ Len(received) < MaxPushes
    /\ \E chunk \in WindowChunks :
          /\ output_buffer' = push_output(output_buffer, chunk)
          /\ received' = Append(received, chunk)
    /\ last_output_age' = 0
    /\ UNCHANGED <<continue_count, response_history, child, reader, user_rx, pc,
                   buffer, time_since_output, sent, continues_written, summary,
                   status>>
    /\ UNCHANGED <<docVars, clockVars>>
    /\ UNCHANGED <<termVars, lockVars, since_event>>

\* the supervisor clears the window after a command (lines 356, 375, 416)
WindowClear ==
    /\ received # <<>>
    /\ output_buffer' = <<>>
    /\ received' = <<>>
    /\ last_output_age' = 0
    /\ UNCHANGED <<continue_count, response_history, child, reader, user_rx, pc,
                   buffer, time_since_output, sent, continues_written, summary,
                   status>>
    /\ UNCHANGED <<docVars, clockVars>>
    /\ UNCHANGED <<termVars, lockVars, since_event>>

InitWindow ==
    /\ output_buffer = <<>>
    /\ last_output_age = 0
    /\ continue_count = 0
    /\ response_history = <<>>
    /\ child = "running"
    /\ reader = "reading"
    /\ user_rx = <<>>
    /\ pc = "loop"
    /\ buffer = <<>>
    /\ time_since_output = 0
    /\ sent = <<>>
    /\ continues_written = 0
    /\ summary = NoNumber
    /\ status = STATUS_STARTING
    /\ received = <<>>
    /\ md_file = <<>>
    /\ NoDocumentRun
    /\ NoSession
    /\ NoClock

NextWindow ==
    \/ WindowPush
    \/ WindowClear

SpecWindow == InitWindow /\ [][NextWindow]_vars

RECURSIVE Flatten(_)
\* the characters of a sequence of chunks, in order
Flatten(chunks) ==
    IF chunks = <<>> THEN <<>> ELSE Head(chunks) \o Flatten(Tail(chunks))

\* C7: the window holds at most 2000 characters; it holds exactly the last
\* 2000 characters received since the last clear when more than 2000 were
\* received, and all of them, unmodified, otherwise.
C7_WindowIsLast2000 ==
    LET all == Flatten(received)
        n == Len(all)
    IN  /\ Len(output_buffer) <= 2000
        /\ n > 2000 => output_buffer = SubSeq(all, n - 1999, n)
        /\ n <= 2000 => output_buffer = all

\* more than 2000 characters, multi-byte ones among them, came in several
\* pushes and the window was cut to the last 2000
C7_Witness ==
    /\ Len(received) >= 2
    /\ Len(Flatten(received)) > 2000
    /\ Len(output_buffer) = 2000
    /\ \E i \in 1..Len(output_buffer) : Utf8Len(output_buffer[i]) > 1
    /\ Utf8Len(output_buffer[1]) = 1

---------------------------------------------------------------------------
(* Claudia::run: the supervision loop                                      *)
(* Elapsed time is kept in seconds and advances where run sleeps; the wall *)
(* clock `now` stays at the instant of the start, and the end of a         *)
(* usage-limit wait is a step that may happen at any later moment.  In     *)
(* this specification `sent` holds the writes of the step that led to the  *)
(* state, and pc, inside an iteration, names the branch the iteration      *)
(* takes on its snapshot; the locals buffer and time_since_output are      *)
(* dropped when the iteration ends.  Standard input is not a terminal: run *)
(* starts no input thread, and the channel of keystrokes stays empty.      *)
(* The parameter `limit` of the two branches that count caps the counter   *)
(* of the sessions explored.                                               *)

StagnationSecs == 60
ContinueCeiling == 50

MaxSessionContinues == 2
MaxReads == 1

ESC == "U+001B"

create_initial_prompt ==
    <<"P","l","e","a","s","e"," ","r","e","a","d"," ","a","n","d"," ",
      "c","o","m","p","l","e","t","e"," ","a","l","l"," ","t","a","s","k","s",
      " ","i","n"," ","t","h","e"," ","f","i","l","e",":"," ",
      "t","a","s","k","s",".","m","d">>

PLAIN_ONE == <<"T","a","s","k"," ","o","n","e"," ","d","o","n","e",".">>
BUSY_TEXT ==
    <<"W","o","r","k","i","n","g"," ","(","E","s","c"," ","t","o"," ",
      "i","n","t","e","r","r","u","p","t",")">>
LIMIT_TEXT == <<"U","s","a","g","e"," ","l","i","m","i","t",":"," ","3","p","m">>
BANNER_TEXT == WARNING_BANNER \o <<" ">> \o YES_ACCEPT
LIMIT_PROMPT_TEXT ==
    LIMIT_TEXT \o
    <<"."," ","B","y","p","a","s","s"," ","P","e","r","m","i","s","s","i","o","n","s",
      " ","m","o","d","e"," ">> \o NO_EXIT \o <<" ">> \o YES_ACCEPT

\* what the child prints in one read of the output thread
Chunks ==
    {PLAIN_ONE, BUSY_TEXT, LIMIT_TEXT, BANNER_TEXT, LIMIT_PROMPT_TEXT}

\* the task files a session starts on
TaskFiles == { <<"-"," ","a">> }

\* the order of run's checks reversed for the first two
tick_branch_PromptFirst(buf, elapsed, t) ==
    IF check_bypass_permissions_prompt(buf) THEN "bypass_prompt"
    ELSE IF check_usage_limit(buf, t) # NoNumber THEN "usage_limit"
    ELSE IF elapsed > StagnationSecs /\ ~is_claude_running(buf) THEN "stagnation"
    ELSE "idle"

\* the branch one iteration of run's loop takes on its snapshot
tick_branch(buf, elapsed, t) ==
    IF check_usage_limit(buf, t) # NoNumber THEN "usage_limit"
    ELSE IF check_bypass_permissions_prompt(buf) THEN "bypass_prompt"
    ELSE IF elapsed > StagnationSecs /\ ~is_claude_running(buf) THEN "stagnation"
    ELSE "idle"

\* a Continue written without the window being cleared
send_continue_KeepWindow ==
    /\ sent' = <<CONTINUE, CR>>
    /\ continues_written' = continues_written + 1
    /\ UNCHANGED <<output_buffer, received>>
    /\ last_output_age' = 0
    /\ status' = STATUS_WORKING
    /\ since_event' = 0

\* the injection both branches end with: "Continue" is written, then the
\* carriage return, the window is cleared and the timestamp reset
send_continue ==
    /\ sent' = <<CONTINUE, CR>>
    /\ continues_written' = continues_written + 1
    /\ output_buffer' = <<>>
    /\ received' = <<>>
    /\ last_output_age' = 0
    /\ status' = STATUS_WORKING
    /\ since_event' = 0

\* run up to the start of the loop: pre-flight pass, spawn, initial prompt
Startup ==
    /\ pc = "start"
    /\ md_file # Unreadable
    /\ md_file' = ensure_checkboxes(md_file).content
    /\ passes' = passes + 1
    /\ wrote' = ensure_checkboxes(md_file).modified
    /\ child' = "running"
    /\ reader' = "reading"
    /\ sent' = <<create_initial_prompt, CR>>
    /\ status' = STATUS_WORKING
    /\ pc' = "loop"
    /\ UNCHANGED <<output_buffer, last_output_age, continue_count, response_history,
                   user_rx, buffer, time_since_output, continues_written, summary,
                   received, completed, clockVars>>
    /\ raw_mode' = is_tty
    /\ writer' = "open"
    /\ UNCHANGED <<is_tty, should_exit, interrupt, lockVars, since_event>>

\* a relayed key that leaves the timestamp alone
resets_tracking_Never(user_bytes) == FALSE

\* whether a relayed key resets the timestamp: not empty, first byte not ESC
resets_tracking(user_bytes) == user_bytes # <<>> /\ user_bytes[1] # ESC

\* the start of an iteration: key relay, liveness poll, snapshot, elapsed
\* time, and the tests that choose the branch
TickBegin ==
    /\ pc = "loop"
    /\ LET relayed == user_rx # <<>>
           user_bytes == Head(user_rx)
           elapsed == IF relayed /\ resets_tracking(user_bytes) THEN 0 ELSE last_output_age
       IN  /\ user_rx' = IF relayed THEN Tail(user_rx) ELSE user_rx
           /\ sent' = IF relayed THEN <<user_bytes>> ELSE <<>>
           /\ last_output_age' = elapsed
           /\ IF child = "running"
              THEN /\ buffer' = output_buffer
                   /\ time_since_output' = elapsed
                   /\ pc' = tick_branch(output_buffer, elapsed, now)
                   /\ status' = status
              ELSE /\ pc' = "shutdown"
                   /\ status' = STATUS_EXITED
                   /\ UNCHANGED <<buffer, time_since_output>>
    /\ UNCHANGED <<output_buffer, continue_count, response_history, child, reader,
                   continues_written, summary, received, docVars, clockVars>>
    /\ since_event' =
           IF user_rx # <<>> /\ Head(user_rx)[1] # ESC THEN 0 ELSE since_event
    /\ UNCHANGED <<termVars, lockVars>>

\* the usage-limit branch up to the call of wait_for_limit_reset
EnterUsageLimitWait(limit) ==
    /\ pc = "usage_limit"
    /\ continue_count < limit
    /\ wait_until' = check_usage_limit(buffer, now)
    /\ sent' = <<>>
    /\ pc' = "waiting"
    /\ UNCHANGED <<output_buffer, last_output_age, continue_count, response_history,
                   child, reader, user_rx, buffer, time_since_output,
                   continues_written, summary, status, received, docVars, now,
                   remaining>>
    /\ UNCHANGED <<termVars, lockVars, since_event>>

\* the usage-limit branch after wait_for_limit_reset has returned
ResumeAfterWait ==
    /\ pc = "waiting"
    /\ remaining = 0
    /\ continue_count' = continue_count + 1
    /\ send_continue
    /\ wait_until' = NoNumber
    /\ buffer' = <<>>
    /\ time_since_output' = 0
    /\ pc' = "loop"
    /\ UNCHANGED <<response_history, child, reader, user_rx, summary, docVars,
                   now, remaining>>
    /\ UNCHANGED <<termVars, lockVars>>

\* an acceptance that leaves the window as it is
AcceptBypassPrompt_KeepWindow ==
    /\ pc = "bypass_prompt"
    /\ status' = STATUS_ACCEPTING
    /\ sent' = <<ACCEPT, CR>>
    /\ UNCHANGED <<output_buffer, received>>
    /\ last_output_age' = 0
    /\ buffer' = <<>>
    /\ time_since_output' = 0
    /\ pc' = "loop"
    /\ UNCHANGED <<continue_count, response_history, child, reader, user_rx,
                   continues_written, summary, docVars, clockVars>>
    /\ since_event' = 0
    /\ UNCHANGED <<termVars, lockVars>>

\* the permission-prompt branch
AcceptBypassPrompt ==
    /\ pc = "bypass_prompt"
    /\ status' = STATUS_ACCEPTING
    /\ sent' = <<ACCEPT, CR>>
    /\ output_buffer' = <<>>
    /\ received' = <<>>
    /\ last_output_age' = 0
    /\ buffer' = <<>>
    /\ time_since_output' = 0
    /\ pc' = "loop"
    /\ UNCHANGED <<continue_count, response_history, child, reader, user_rx,
                   continues_written, summary, docVars, clockVars>>
    /\ since_event' = 0
    /\ UNCHANGED <<termVars, lockVars>>

\* the stagnation branch, were the detector to record before the oracle is asked
HandleStagnation_DetectorFirst(limit) ==
    /\ pc = "stagnation"
    /\ IF check_all_tasks_completed(md_file)
       THEN /\ status' = STATUS_ALL_DONE
            /\ child' = "killed"
            /\ pc' = "shutdown"
            /\ sent' = <<>>
            /\ response_history' = pushed_history(response_history, buffer)
            /\ UNCHANGED <<continue_count, continues_written,
                           output_buffer, received, last_output_age,
                           since_event>>
       ELSE LET checked == check_repeated_pattern(response_history, buffer)
                count == continue_count + 1
            IN  /\ response_history' = checked.history
                /\ IF checked.stuck
                   THEN /\ status' = STATUS_STUCK
                        /\ child' = "killed"
                        /\ pc' = "shutdown"
                        /\ sent' = <<>>
                        /\ UNCHANGED <<continue_count, continues_written,
                                       output_buffer, received, last_output_age,
                                       since_event>>
                   ELSE /\ continue_count < limit
                        /\ continue_count' = count
                        /\ IF count > ContinueCeiling
                           THEN /\ status' = STATUS_CEILING
                                /\ child' = "killed"
                                /\ pc' = "shutdown"
                                /\ sent' = <<>>
                                /\ UNCHANGED <<continues_written, output_buffer,
                                               received, last_output_age,
                                               since_event>>
                           ELSE /\ send_continue
                                /\ pc' = "loop"
                                /\ child' = child
    /\ buffer' = <<>>
    /\ time_since_output' = 0
    /\ UNCHANGED <<reader, user_rx, summary, docVars, clockVars>>
    /\ UNCHANGED <<termVars, lockVars>>

\* a stagnation branch without the ceiling on the Continue commands
HandleStagnation_NoCeiling(limit) ==
    /\ pc = "stagnation"
    /\ IF check_all_tasks_completed(md_file)
       THEN /\ status' = STATUS_ALL_DONE
            /\ child' = "killed"
            /\ pc' = "shutdown"
            /\ sent' = <<>>
            /\ UNCHANGED <<response_history, continue_count, continues_written,
                           output_buffer, received, last_output_age,
                           since_event>>
       ELSE LET checked == check_repeated_pattern(response_history, buffer)
                count == continue_count + 1
            IN  /\ response_history' = checked.history
                /\ IF checked.stuck
                   THEN /\ status' = STATUS_STUCK
                        /\ child' = "killed"
                        /\ pc' = "shutdown"
                        /\ sent' = <<>>
                        /\ UNCHANGED <<continue_count, continues_written,
                                       output_buffer, received, last_output_age,
                                       since_event>>
                   ELSE /\ continue_count < limit
                        /\ continue_count' = count
                        /\ IF FALSE
                           THEN /\ status' = STATUS_CEILING
                                /\ child' = "killed"
                                /\ pc' = "shutdown"
                                /\ sent' = <<>>
                                /\ UNCHANGED <<continues_written, output_buffer,
                                               received, last_output_age,
                                               since_event>>
                           ELSE /\ send_continue
                                /\ pc' = "loop"
                                /\ child' = child
    /\ buffer' = <<>>
    /\ time_since_output' = 0
    /\ UNCHANGED <<reader, user_rx, summary, docVars, clockVars>>
    /\ UNCHANGED <<termVars, lockVars>>

\* the stagnation branch
HandleStagnation(limit) ==
    /\ pc = "stagnation"
    /\ IF check_all_tasks_completed(md_file)
       THEN /\ status' = STATUS_ALL_DONE
            /\ child' = "killed"
            /\ pc' = "shutdown"
            /\ sent' = <<>>
            /\ UNCHANGED <<response_history, continue_count, continues_written,
                           output_buffer, received, last_output_age,
                           since_event>>
       ELSE LET checked == check_repeated_pattern(response_history, buffer)
                count == continue_count + 1
            IN  /\ response_history' = checked.history
                /\ IF checked.stuck
                   THEN /\ status' = STATUS_STUCK
                        /\ child' = "killed"
                        /\ pc' = "shutdown"
                        /\ sent' = <<>>
                        /\ UNCHANGED <<continue_count, continues_written,
                                       output_buffer, received, last_output_age,
                                       since_event>>
                   ELSE /\ continue_count < limit
                        /\ continue_count' = count
                        /\ IF count > ContinueCeiling
                           THEN /\ status' = STATUS_CEILING
                                /\ child' = "killed"
                                /\ pc' = "shutdown"
                                /\ sent' = <<>>
                                /\ UNCHANGED <<continues_written, output_buffer,
                                               received, last_output_age,
                                               since_event>>
                           ELSE /\ send_continue
                                /\ pc' = "loop"
                                /\ child' = child
    /\ buffer' = <<>>
    /\ time_since_output' = 0
    /\ UNCHANGED <<reader, user_rx, summary, docVars, clockVars>>
    /\ UNCHANGED <<termVars, lockVars>>

\* an iteration none of whose branches is taken
Idle ==
    /\ pc = "idle"
    /\ buffer' = <<>>
    /\ time_since_output' = 0
    /\ sent' = <<>>
    /\ pc' = "loop"
    /\ UNCHANGED <<output_buffer, last_output_age, continue_count, response_history,
                   child, reader, user_rx, continues_written, summary, status,
                   received, docVars, clockVars>>
    /\ UNCHANGED <<termVars, lockVars, since_event>>

\* run after the loop, up to the join: the input thread is told to exit, the
\* handle on the child's input is dropped, raw mode is switched off
BeginShutdown ==
    /\ pc = "shutdown"
    /\ should_exit' = TRUE
    /\ writer' = "dropped"
    /\ raw_mode' = IF is_tty THEN FALSE ELSE raw_mode
    /\ sent' = <<>>
    /\ pc' = "joining"
    /\ UNCHANGED <<output_buffer, last_output_age, continue_count, response_history,
                   child, reader, user_rx, buffer, time_since_output,
                   continues_written, summary, status, received, docVars, clockVars,
                   is_tty, interrupt, lockVars, since_event>>

\* a summary printed without waiting for the output thread
Shutdown_NoJoin ==
    /\ pc = "joining"
    /\ summary' = continue_count
    /\ sent' = <<>>
    /\ pc' = "done"
    /\ UNCHANGED <<output_buffer, last_output_age, continue_count, response_history,
                   child, reader, user_rx, buffer, time_since_output,
                   continues_written, status, received, docVars, clockVars>>
    /\ UNCHANGED <<termVars, lockVars, since_event>>

\* the end of run: the output thread is joined, the summary printed
Shutdown ==
    /\ pc = "joining"
    /\ reader = "ended"
    /\ summary' = continue_count
    /\ sent' = <<>>
    /\ pc' = "done"
    /\ UNCHANGED <<output_buffer, last_output_age, continue_count, response_history,
                   child, reader, user_rx, buffer, time_since_output,
                   continues_written, status, received, docVars, clockVars>>
    /\ UNCHANGED <<termVars, lockVars, since_event>>

\* the output thread reads a chunk and pushes it into the window
ReaderPush(chunks) ==
    /\ reader = "reading"
    /\ child = "running"
    /\ Len(received) < MaxReads
    /\ \E output \in chunks :
          /\ output_buffer' = push_output(output_buffer, output)
          /\ received' = Append(received, output)
    /\ last_output_age' = 0
    /\ sent' = <<>>
    /\ UNCHANGED <<continue_count, response_history, child, reader, user_rx, pc,
                   buffer, time_since_output, continues_written, summary,
                   status, docVars, clockVars>>
    /\ since_event' = 0
    /\ UNCHANGED <<termVars, lockVars>>

\* the output thread reads end of file, or an error, and ends
ReaderEnds ==
    /\ reader = "reading"
    /\ child \in {"exited", "killed"}
    /\ reader' = "ended"
    /\ sent' = <<>>
    /\ UNCHANGED <<output_buffer, last_output_age, continue_count, response_history,
                   child, user_rx, pc, buffer, time_since_output,
                   continues_written, summary, status, received, docVars, clockVars>>
    /\ UNCHANGED <<termVars, lockVars, since_event>>

\* the child ends on its own
ChildExits ==
    /\ child = "running"
    /\ child' = "exited"
    /\ sent' = <<>>
    /\ UNCHANGED <<output_buffer, last_output_age, continue_count, response_history,
                   reader, user_rx, pc, buffer, time_since_output,
                   continues_written, summary, status, received, docVars, clockVars>>
    /\ UNCHANGED <<termVars, lockVars, since_event>>

\* the child, while it runs, ticks a task off in the file; run reads the
\* file only in the stagnation branch
ChildEditsDocument ==
    /\ child = "running"
    /\ pc \in {"loop", "waiting"}
    /\ \E i \in 1..Len(md_file) :
          /\ OccursAt(md_file, UNCHECKED, i)
          /\ md_file' = [md_file EXCEPT ![i + 1] = "x"]
    /\ passes' = 0
    /\ wrote' = FALSE
    /\ sent' = <<>>
    /\ UNCHANGED <<output_buffer, last_output_age, continue_count, response_history,
                   child, reader, user_rx, pc, buffer, time_since_output,
                   continues_written, summary, status, received, completed,
                   clockVars>>
    /\ UNCHANGED <<termVars, lockVars, since_event>>

\* time passes while run sleeps: up to the threshold, then beyond it
TimePasses ==
    /\ pc \in {"loop", "waiting"}
    /\ last_output_age <= StagnationSecs
    /\ last_output_age' =
           IF last_output_age < StagnationSecs
           THEN StagnationSecs
           ELSE StagnationSecs + 1
    /\ sent' = <<>>
    /\ UNCHANGED <<output_buffer, continue_count, response_history, child, reader,
                   user_rx, pc, buffer, time_since_output, continues_written,
                   summary, status, received, docVars, clockVars>>
    /\ since_event' =
           IF since_event < StagnationSecs
           THEN StagnationSecs
           ELSE StagnationSecs + 1
    /\ UNCHANGED <<termVars, lockVars>>

Init ==
    /\ NewClaudia
    /\ md_file \in TaskFiles
    /\ received = <<>>
    /\ NoDocumentRun
    /\ NoSession
    /\ NoClock

Next ==
    \/ Startup
    \/ TickBegin
    \/ EnterUsageLimitWait(MaxSessionContinues)
    \/ ResumeAfterWait
    \/ AcceptBypassPrompt
    \/ HandleStagnation(MaxSessionContinues)
    \/ Idle
    \/ BeginShutdown
    \/ Shutdown
    \/ ReaderPush(Chunks)
    \/ ReaderEnds
    \/ ChildExits
    \/ ChildEditsDocument
    \/ TimePasses

Spec == Init /\ [][Next]_vars

---------------------------------------------------------------------------
(* A long session: the child prints plain text or a usage-limit notice,    *)
(* never finishes a task and never ends, so the counter runs to the        *)
(* ceiling.                                                                *)

CeilingChunks == {PLAIN_ONE, LIMIT_TEXT}

NextCeiling ==
    \/ Startup
    \/ TickBegin
    \/ EnterUsageLimitWait(ContinueCeiling + 1)
    \/ ResumeAfterWait
    \/ HandleStagnation(ContinueCeiling + 1)
    \/ Idle
    \/ BeginShutdown
    \/ Shutdown
    \/ ReaderPush(CeilingChunks)
    \/ ReaderEnds
    \/ TimePasses

SpecCeiling == Init /\ [][NextCeiling]_vars

---------------------------------------------------------------------------
(* A session on a terminal: raw mode, the input thread, the interrupt      *)
(* handling, and the errors run returns with `?`                            *)

MaxKeys == 1

KEY_UP == <<ESC, "[", "A">>
KEY_CHAR == <<"y">>
Keys == {KEY_UP, KEY_CHAR}

STATUS_RESUMING == "Sending Continue after usage limit wait..."
STATUS_STOPPED == "Claude stopped. Sending Continue #..."
STATUS_POLL_ERROR == "Error checking process status: ..."

TtyChunks == {PLAIN_ONE, LIMIT_TEXT, BANNER_TEXT}

\* the input thread sends the bytes of a key; run reads the channel only at
\* the start of an iteration
KeyPressed ==
    /\ is_tty
    /\ pc = "loop"
    /\ Len(user_rx) < MaxKeys
    /\ \E bytes \in Keys : user_rx' = Append(user_rx, bytes)
    /\ sent' = <<>>
    /\ UNCHANGED <<output_buffer, last_output_age, continue_count, response_history,
                   child, reader, pc, buffer, time_since_output,
                   continues_written, summary, status, received, docVars, clockVars>>
    /\ UNCHANGED <<termVars, lockVars, since_event>>

\* run returns the error of a `?`: its locals, the handle on the child's
\* input among them, are dropped; nothing else is undone
ReturnError ==
    /\ pc' = "failed"
    /\ writer' = "dropped"
    /\ sent' = <<>>
    /\ UNCHANGED <<is_tty, should_exit, raw_mode, interrupt, lockVars, since_event>>
    /\ UNCHANGED <<output_buffer, last_output_age, reader, buffer, time_since_output,
                   continues_written, summary, received, docVars, clockVars>>

\* the write or flush of a relayed key fails
RelayWriteFails ==
    /\ pc = "loop"
    /\ user_rx # <<>>
    /\ user_rx' = Tail(user_rx)
    /\ ReturnError
    /\ UNCHANGED <<continue_count, response_history, child, status>>

\* the write or flush of the Continue after a usage-limit wait fails
ResumeWriteFails ==
    /\ pc = "waiting"
    /\ continue_count' = continue_count + 1
    /\ status' = STATUS_RESUMING
    /\ ReturnError
    /\ UNCHANGED <<response_history, child, user_rx>>

\* the write or flush of the acceptance response fails
AcceptWriteFails ==
    /\ pc = "bypass_prompt"
    /\ status' = STATUS_ACCEPTING
    /\ ReturnError
    /\ UNCHANGED <<continue_count, response_history, child, user_rx>>

\* the stagnation branch fails: child.kill() on one of the three exits, or
\* the write or flush of the Continue
StagnationFails ==
    /\ pc = "stagnation"
    /\ IF check_all_tasks_completed(md_file)
       THEN /\ status' = STATUS_ALL_DONE
            /\ UNCHANGED <<response_history, continue_count>>
       ELSE /\ response_history' = pushed_history(response_history, buffer)
            /\ IF history_stuck(pushed_history(response_history, buffer))
               THEN /\ status' = STATUS_STUCK
                    /\ UNCHANGED continue_count
               ELSE /\ continue_count' = continue_count + 1
                    /\ status' = IF continue_count + 1 > ContinueCeiling
                                 THEN STATUS_CEILING
                                 ELSE STATUS_STOPPED
    /\ ReturnError
    /\ UNCHANGED <<child, user_rx>>

\* child.try_wait() returns an error, with no key waiting to be relayed
PollFails ==
    /\ pc = "loop"
    /\ user_rx = <<>>
    /\ status' = STATUS_POLL_ERROR
    /\ pc' = "shutdown"
    /\ sent' = <<>>
    /\ UNCHANGED <<output_buffer, last_output_age, continue_count, response_history,
                   child, reader, user_rx, buffer, time_since_output,
                   continues_written, summary, received, docVars, clockVars>>
    /\ UNCHANGED <<termVars, lockVars, since_event>>

\* the operator interrupts: SIGINT wakes the handler thread, or, in raw
\* mode, the input thread reads Ctrl+C
InterruptArrives ==
    /\ interrupt = "none"
    /\ pc \notin {"done", "failed", "exited"}
    /\ interrupt' = "handling"
    /\ sent' = <<>>
    /\ UNCHANGED <<output_buffer, last_output_age, continue_count, response_history,
                   child, reader, user_rx, pc, buffer, time_since_output,
                   continues_written, summary, status, received, docVars, clockVars>>
    /\ UNCHANGED <<is_tty, should_exit, raw_mode, writer, lockVars, since_event>>

\* the interrupted thread restores the terminal: disable_raw_mode().ok()
InterruptRestores ==
    /\ interrupt = "handling"
    /\ pc \notin {"done", "failed", "exited"}
    /\ raw_mode' = IF is_tty THEN FALSE ELSE raw_mode
    /\ interrupt' = "restored"
    /\ sent' = <<>>
    /\ UNCHANGED <<output_buffer, last_output_age, continue_count, response_history,
                   child, reader, user_rx, pc, buffer, time_since_output,
                   continues_written, summary, status, received, docVars, clockVars>>
    /\ UNCHANGED <<is_tty, should_exit, writer, lockVars, since_event>>

\* then it ends the process: std::process::exit(0). The threads end with
\* it and the system closes the handle on the child's input; the child is
\* neither killed nor waited for
InterruptExits ==
    /\ interrupt = "restored"
    /\ pc \notin {"done", "failed", "exited"}
    /\ pc' = "exited"
    /\ interrupt' = "exited"
    /\ reader' = "ended"
    /\ writer' = IF writer = "open" THEN "closed" ELSE writer
    /\ sent' = <<>>
    /\ UNCHANGED <<output_buffer, last_output_age, continue_count, response_history,
                   child, user_rx, buffer, time_since_output,
                   continues_written, summary, status, received, docVars, clockVars>>
    /\ UNCHANGED <<is_tty, should_exit, raw_mode, lockVars, since_event>>

InitTty ==
    /\ NewClaudia
    /\ md_file \in TaskFiles
    /\ received = <<>>
    /\ NoDocumentRun
    /\ NoClock
    /\ is_tty = TRUE
    /\ should_exit = FALSE
    /\ raw_mode = FALSE
    /\ writer = "none"
    /\ interrupt = "none"
    /\ since_event = 0
    /\ held = {}
    /\ reader_held = {}
    /\ lock_ops = <<>>
    /\ input_thread = "none"

NextTty ==
    \/ Startup
    \/ KeyPressed
    \/ TickBegin
    \/ EnterUsageLimitWait(MaxSessionContinues)
    \/ ResumeAfterWait
    \/ AcceptBypassPrompt
    \/ HandleStagnation(MaxSessionContinues)
    \/ Idle
    \/ BeginShutdown
    \/ Shutdown
    \/ RelayWriteFails
    \/ ResumeWriteFails
    \/ AcceptWriteFails
    \/ StagnationFails
    \/ PollFails
    \/ InterruptArrives
    \/ InterruptRestores
    \/ InterruptExits
    \/ ReaderPush(TtyChunks)
    \/ ReaderEnds
    \/ ChildExits
    \/ TimePasses

SpecTty == InitTty /\ [][NextTty]_vars

---------------------------------------------------------------------------
(* The shutdown, statement by statement, on a terminal or off one          *)

shutdownFrame ==
    UNCHANGED <<output_buffer, last_output_age, continue_count, response_history,
                child, reader, user_rx, buffer, time_since_output,
                continues_written, status, received, docVars, clockVars,
                is_tty, interrupt, lockVars, since_event>>

\* *should_exit.lock().unwrap() = true
SignalInputStop ==
    /\ pc = "shutdown"
    /\ should_exit' = TRUE
    /\ pc' = "drop_writer"
    /\ sent' = <<>>
    /\ UNCHANGED <<writer, raw_mode, summary>>
    /\ shutdownFrame

\* drop(writer)
DropWriter ==
    /\ pc = "drop_writer"
    /\ writer' = "dropped"
    /\ pc' = "restore_terminal"
    /\ sent' = <<>>
    /\ UNCHANGED <<should_exit, raw_mode, summary>>
    /\ shutdownFrame

\* if is_tty { disable_raw_mode().ok(); }
RestoreTerminal ==
    /\ pc = "restore_terminal"
    /\ raw_mode' = IF is_tty THEN FALSE ELSE raw_mode
    /\ pc' = "joining"
    /\ sent' = <<>>
    /\ UNCHANGED <<should_exit, writer, summary>>
    /\ shutdownFrame

ShutdownChunks == {PLAIN_ONE}

InitShutdown ==
    /\ NewClaudia
    /\ md_file \in TaskFiles
    /\ received = <<>>
    /\ NoDocumentRun
    /\ NoClock
    /\ is_tty \in BOOLEAN
    /\ should_exit = FALSE
    /\ raw_mode = FALSE
    /\ writer = "none"
    /\ interrupt = "none"
    /\ since_event = 0
    /\ held = {}
    /\ reader_held = {}
    /\ lock_ops = <<>>
    /\ input_thread = "none"

NextShutdown ==
    \/ Startup
    \/ KeyPressed
    \/ TickBegin
    \/ HandleStagnation(MaxSessionContinues)
    \/ Idle
    \/ PollFails
    \/ SignalInputStop
    \/ DropWriter
    \/ RestoreTerminal
    \/ Shutdown
    \/ ReaderPush(ShutdownChunks)
    \/ ReaderEnds
    \/ ChildExits
    \/ ChildEditsDocument
    \/ TimePasses

SpecShutdown == InitShutdown /\ [][NextShutdown]_vars

---------------------------------------------------------------------------
(* A session on a terminal in which the operator types: keys are relayed,  *)
(* the child prints plain text, its busy line or a permission prompt.      *)

RelayChunks == {PLAIN_ONE, BUSY_TEXT, BANNER_TEXT}

NextRelay ==
    \/ Startup
    \/ KeyPressed
    \/ TickBegin
    \/ AcceptBypassPrompt
    \/ HandleStagnation(MaxSessionContinues)
    \/ Idle
    \/ BeginShutdown
    \/ Shutdown
    \/ ReaderPush(RelayChunks)
    \/ ReaderEnds
    \/ ChildExits
    \/ TimePasses

SpecRelay == InitTty /\ [][NextRelay]_vars

---------------------------------------------------------------------------
(* The usage-limit wait, sleep by sleep: wait_for_limit_reset reads the    *)
(* clock again, counts the whole seconds to the resume time and sleeps     *)
(* them away; the clock advances with the sleeps.                          *)

SleepCap == 30

\* a sleep that does not shorten at the end of the countdown
sleep_duration_Fixed(r) == SleepCap

\* std::cmp::min(remaining, 30)
sleep_duration(r) == IF r < SleepCap THEN r ELSE SleepCap

\* Duration::num_seconds of a duration given in milliseconds
num_seconds(ms) == ms \div 1000

\* total_seconds: the whole seconds from the clock reading, t seconds and
\* ms milliseconds, to the resume time; 0 when the resume time is not after
\* the reading
total_seconds(until, t, ms) ==
    IF until * 1000 > t * 1000 + ms
    THEN num_seconds(until * 1000 - (t * 1000 + ms))
    ELSE 0

\* the time between the clock reading of check_usage_limit and that of
\* wait_for_limit_reset, whole seconds and milliseconds
WaitDelays == {0, 1}
WaitMillis == {0, 500}

\* the instants a session starts at: 75 s and 1 s before 3pm
WaitInstants == {53925, 53999}

WaitChunks == {PLAIN_ONE, LIMIT_TEXT}

\* the usage-limit branch up to the countdown loop of wait_for_limit_reset
BeginWait(limit) ==
    /\ pc = "usage_limit"
    /\ continue_count < limit
    /\ wait_until' = check_usage_limit(buffer, now)
    /\ \E delay \in WaitDelays, ms \in WaitMillis :
          /\ now' = now + delay
          /\ remaining' = total_seconds(check_usage_limit(buffer, now), now + delay, ms)
    /\ sent' = <<>>
    /\ pc' = "waiting"
    /\ UNCHANGED <<output_buffer, last_output_age, continue_count, response_history,
                   child, reader, user_rx, buffer, time_since_output,
                   continues_written, summary, status, received, docVars>>
    /\ UNCHANGED <<termVars, lockVars, since_event>>

\* one iteration of the countdown loop
WaitSleeps ==
    /\ pc = "waiting"
    /\ remaining > 0
    /\ now' = now + sleep_duration(remaining)
    /\ remaining' = remaining - sleep_duration(remaining)
    /\ sent' = <<>>
    /\ UNCHANGED <<output_buffer, last_output_age, continue_count, response_history,
                   child, reader, user_rx, pc, buffer, time_since_output,
                   continues_written, summary, status, received, docVars,
                   wait_until>>
    /\ UNCHANGED <<termVars, lockVars, since_event>>

InitWait ==
    /\ NewClaudia
    /\ md_file \in TaskFiles
    /\ received = <<>>
    /\ NoDocumentRun
    /\ NoSession
    /\ now \in WaitInstants
    /\ wait_until = NoNumber
    /\ remaining = 0

NextWait ==
    \/ Startup
    \/ TickBegin
    \/ BeginWait(MaxSessionContinues)
    \/ WaitSleeps
    \/ ResumeAfterWait
    \/ Idle
    \/ ReaderPush(WaitChunks)

\* the supervisor thread keeps running: a sleep ends, a write returns
SpecWait ==
    /\ InitWait
    /\ [][NextWait]_vars
    /\ WF_vars(WaitSleeps)
    /\ WF_vars(ResumeAfterWait)

---------------------------------------------------------------------------
(* The locks: every lock() of the supervisor thread and of the output      *)
(* thread, in program order                                                 *)

Locks == {"output_buffer", "last_output_time", "continue_count", "status",
          "response_history"}

\* a guard that lives for one statement: *x.lock().unwrap() = ...
statement_guard(l) == <<<<"lock", l>>, <<"unlock", l>>>>

\* display_status binds two guards and drops them, in reverse order, when
\* it returns
display_status ==
    <<<<"lock", "status">>, <<"lock", "continue_count">>,
      <<"unlock", "continue_count">>, <<"unlock", "status">>>>

update_status == statement_guard("status") \o display_status

\* a snapshot that reads the window with the timestamp's guard still alive
snapshot_Nested ==
    <<<<"lock", "last_output_time">>, <<"lock", "output_buffer">>,
      <<"unlock", "output_buffer">>, <<"unlock", "last_output_time">>>>

\* let buffer = ...lock().unwrap().clone(); let time_since_output = ...
snapshot == statement_guard("output_buffer") \o statement_guard("last_output_time")

\* the window is cleared and the timestamp reset after a command
clear_and_reset == statement_guard("output_buffer") \o statement_guard("last_output_time")

\* check_repeated_pattern holds the history for the whole call
check_repeated_pattern_locks == statement_guard("response_history")

\* *continue_count += 1; let count = *continue_count
count_and_read == statement_guard("continue_count") \o statement_guard("continue_count")

LockBranches == {"child_exit", "poll_error", "usage_limit", "bypass_prompt",
                 "all_done", "stuck", "ceiling", "continue", "idle"}

EndingBranches == {"child_exit", "poll_error", "all_done", "stuck", "ceiling"}

\* the lock operations of one iteration of the loop, by the branch it takes
iteration_locks(relayed, branch) ==
    (IF relayed THEN statement_guard("last_output_time") ELSE <<>>) \o
    CASE branch = "child_exit" -> update_status
      [] branch = "poll_error" -> update_status
      [] branch = "usage_limit" ->
            snapshot \o statement_guard("continue_count") \o update_status
                \o clear_and_reset \o update_status
      [] branch = "bypass_prompt" -> snapshot \o update_status \o clear_and_reset
      [] branch = "all_done" -> snapshot \o update_status
      [] branch = "stuck" ->
            snapshot \o check_repeated_pattern_locks \o update_status
      [] branch = "ceiling" ->
            snapshot \o check_repeated_pattern_locks \o count_and_read
                \o update_status
      [] branch = "continue" ->
            snapshot \o check_repeated_pattern_locks \o count_and_read
                \o update_status \o clear_and_reset \o update_status
      [] OTHER -> snapshot

lockFrame ==
    UNCHANGED <<output_buffer, last_output_age, continue_count, response_history,
                child, user_rx, buffer, time_since_output, sent,
                continues_written, summary, status, received, docVars, clockVars,
                is_tty, raw_mode, writer, interrupt, since_event>>

\* the locks the input thread holds
input_held == IF input_thread = "checking" THEN {"should_exit"} ELSE {}

\* run up to the loop: the two status updates around the initial prompt;
\* the threads are started
LocksStartup ==
    /\ pc = "start"
    /\ pc' = "startup"
    /\ lock_ops' = update_status \o update_status
    /\ reader' = "reading"
    /\ input_thread' = IF is_tty THEN "polling" ELSE "none"
    /\ UNCHANGED <<held, reader_held, should_exit>>
    /\ lockFrame

\* an iteration begins: whether a key is relayed and which branch is taken
\* are the environment's choice
IterationBegins ==
    /\ pc = "loop"
    /\ lock_ops = <<>>
    /\ \E relayed \in BOOLEAN, branch \in LockBranches :
          /\ lock_ops' = iteration_locks(relayed, branch)
          /\ pc' = branch
    /\ UNCHANGED <<held, reader_held, reader, input_thread, should_exit>>
    /\ lockFrame

\* the supervisor thread takes or releases the next lock of its path; a
\* lock held by another thread makes it wait. The statement that holds the
\* should_exit lock sets the flag.
SupervisorLockStep ==
    /\ lock_ops # <<>>
    /\ LET op == Head(lock_ops)
       IN  IF op[1] = "lock"
           THEN /\ op[2] \notin reader_held
                /\ op[2] \notin input_held
                /\ op[2] \notin held
                /\ held' = held \cup {op[2]}
                /\ UNCHANGED should_exit
           ELSE /\ held' = held \ {op[2]}
                /\ should_exit' = IF op[2] = "should_exit" THEN TRUE ELSE should_exit
    /\ lock_ops' = Tail(lock_ops)
    /\ UNCHANGED <<pc, reader_held, reader, input_thread>>
    /\ lockFrame

\* the path is finished: next iteration, or the next part of the end of
\* run (should_exit is set; after the join the summary reads the counter)
IterationEnds ==
    /\ lock_ops = <<>>
    /\ pc \in LockBranches \cup {"startup", "summary", "counting"}
    /\ IF pc \in EndingBranches
       THEN /\ pc' = "summary"
            /\ lock_ops' = statement_guard("should_exit")
       ELSE /\ pc' = CASE pc = "summary" -> "joining"
                       [] pc = "counting" -> "done"
                       [] OTHER -> "loop"
            /\ lock_ops' = <<>>
    /\ UNCHANGED <<held, reader_held, reader, input_thread, should_exit>>
    /\ lockFrame

\* output_thread.join() returns
JoinReader ==
    /\ pc = "joining"
    /\ reader = "ended"
    /\ pc' = "counting"
    /\ lock_ops' = statement_guard("continue_count")
    /\ UNCHANGED <<held, reader_held, reader, input_thread, should_exit>>
    /\ lockFrame

\* the output thread reads end of file once the child is gone
LockReaderEnds ==
    /\ pc \in EndingBranches \cup {"summary", "joining"}
    /\ reader = "reading"
    /\ reader' = "ended"
    /\ UNCHANGED <<pc, held, lock_ops, reader_held, input_thread, should_exit>>
    /\ lockFrame

\* reader.read returns a chunk: the output thread is about to lock the window
ReaderGetsChunk ==
    /\ pc # "start"
    /\ reader = "reading"
    /\ reader' = "read"
    /\ UNCHANGED <<pc, held, lock_ops, reader_held, input_thread, should_exit>>
    /\ lockFrame

\* the output thread: the window's guard lives to the end of the match arm,
\* the timestamp's for one statement inside it
ReaderLockStep ==
    /\ pc # "start"
    /\ \/ /\ reader = "read"
          /\ "output_buffer" \notin held
          /\ reader' = "pushing"
          /\ reader_held' = {"output_buffer"}
       \/ /\ reader = "pushing"
          /\ "last_output_time" \notin held
          /\ reader' = "stamping"
          /\ reader_held' = reader_held \cup {"last_output_time"}
       \/ /\ reader = "stamping"
          /\ reader' = "stamped"
          /\ reader_held' = reader_held \ {"last_output_time"}
       \/ /\ reader = "stamped"
          /\ reader' = "reading"
          /\ reader_held' = {}
    /\ UNCHANGED <<pc, held, lock_ops, input_thread, should_exit>>
    /\ lockFrame

\* the input thread at the top of its loop: it locks should_exit, reads it
\* and lets go; it ends when the flag is set
InputLockStep ==
    /\ \/ /\ input_thread = "polling"
          /\ "should_exit" \notin held
          /\ input_thread' = "checking"
       \/ /\ input_thread = "checking"
          /\ input_thread' = IF should_exit THEN "stopped" ELSE "polling"
    /\ UNCHANGED <<pc, held, lock_ops, reader, reader_held, should_exit>>
    /\ lockFrame

InitLocks ==
    /\ NewClaudia
    /\ md_file \in TaskFiles
    /\ received = <<>>
    /\ NoDocumentRun
    /\ NoClock
    /\ is_tty \in BOOLEAN
    /\ should_exit = FALSE
    /\ raw_mode = FALSE
    /\ writer = "none"
    /\ interrupt = "none"
    /\ since_event = 0
    /\ held = {}
    /\ reader_held = {}
    /\ lock_ops = <<>>
    /\ input_thread = "none"

NextLocks ==
    \/ LocksStartup
    \/ IterationBegins
    \/ SupervisorLockStep
    \/ IterationEnds
    \/ JoinReader
    \/ LockReaderEnds
    \/ ReaderGetsChunk
    \/ ReaderLockStep
    \/ InputLockStep

SpecLocks == InitLocks /\ [][NextLocks]_vars

\* a thread blocked on a lock is woken when the lock is released, and no
\* other thread keeps retaking it ahead of the waiter: the supervisor sleeps
\* 100 ms in every iteration, the output thread blocks in read
SpecLocksFair ==
    /\ InitLocks
    /\ [][NextLocks]_vars
    /\ SF_vars(SupervisorLockStep)
    /\ SF_vars(ReaderLockStep)
    /\ SF_vars(InputLockStep)
    /\ WF_vars(IterationEnds)

---------------------------------------------------------------------------
(* A session of stagnation checks only: the child prints plain text now    *)
(* and then and never a usage-limit notice, so the counter counts the      *)
(* checks that did not report stuck.                                       *)

MaxChecks == 5

StagnationChunks == {PLAIN_ONE}

NextStagnation ==
    \/ Startup
    \/ TickBegin
    \/ HandleStagnation(MaxChecks)
    \/ Idle
    \/ BeginShutdown
    \/ Shutdown
    \/ ReaderPush(StagnationChunks)
    \/ ReaderEnds
    \/ ChildExits
    \/ ChildEditsDocument
    \/ TimePasses

SpecStagnation == Init /\ [][NextStagnation]_vars

---------------------------------------------------------------------------
(* Properties of the supervision loop                                      *)

\* run is inside an iteration, past the snapshot
InTick == pc \in {"usage_limit", "bypass_prompt", "stagnation", "idle"}

\* the snapshot's normalized trailing window equals the last two entries of
\* the history
SameAsLastTwo(history, buf) ==
    /\ Len(history) >= 2
    /\ history[Len(history)] = normalized_response(buf)
    /\ history[Len(history) - 1] = normalized_response(buf)

\* C1: in every iteration that finds the child running, the usage-limit test
\* comes first: when the snapshot matches it, the iteration goes into the
\* wait and resume and does nothing else, it neither accepts a permission
\* prompt nor enters stagnation handling.  When it does not match, the
\* permission-prompt test comes next, ahead of stagnation handling: a
\* matching snapshot is answered with "2" and a carriage return and the
\* iteration ends, without a termination test, a history entry or a Continue.
C1_UsageLimitThenPromptThenStagnation ==
    /\ [](InTick =>
            /\ check_usage_limit(buffer, now) # NoNumber => pc = "usage_limit"
            /\ (/\ check_usage_limit(buffer, now) = NoNumber
                /\ check_bypass_permissions_prompt(buffer)) => pc = "bypass_prompt")
    /\ [][pc = "usage_limit" /\ pc' # pc =>
            /\ pc' = "waiting"
            /\ sent' = <<>>
            /\ UNCHANGED <<response_history, child, status, continue_count,
                           output_buffer, summary>>]_vars
    /\ [][pc = "waiting" /\ pc' # pc =>
            /\ pc' = "loop"
            /\ sent' = <<CONTINUE, CR>>
            /\ UNCHANGED <<response_history, child, summary>>]_vars
    /\ [][pc = "bypass_prompt" /\ pc' # pc =>
            /\ pc' = "loop"
            /\ sent' = <<ACCEPT, CR>>
            /\ UNCHANGED <<response_history, child, continue_count,
                           continues_written, summary>>]_vars

\* an iteration whose snapshot matched all three tests has gone into the
\* usage-limit wait
C1_Witness ==
    /\ pc = "waiting"
    /\ check_bypass_permissions_prompt(buffer)
    /\ time_since_output > StagnationSecs
    /\ ~is_claude_running(buffer)
    /\ response_history = <<>>
    /\ status = STATUS_WORKING

\* C2: the continue counter starts at zero and equals the number of
\* "Continue" texts written to the child wherever an iteration starts or the
\* loop has ended, and the total of the final summary is that number.
C2_CounterIsContinuesWritten ==
    /\ pc \in {"start", "loop", "shutdown", "joining", "done"} =>
          continue_count = continues_written
    /\ summary # NoNumber => summary = continues_written

\* C3: no 51st "Continue" is ever written, and the counter is never above 50
\* while the loop goes on.
C3_NoContinueBeyondCeiling ==
    /\ continues_written <= ContinueCeiling
    /\ pc \in {"loop", "waiting"} \/ InTick => continue_count <= ContinueCeiling

\* C4: an iteration that reaches the stagnation test with more than 60 s of
\* silence and no busy marker in its snapshot, the document incomplete, the
\* snapshot not the third identical one and fewer than 50 Continues counted,
\* writes "Continue" and then, as a write of its own, the carriage return,
\* counts one more Continue, clears the window, resets the timestamp, leaves
\* the child alive and goes on to the next iteration.
C4_StagnationInjectsOneContinue ==
    [][(/\ InTick
        /\ pc' # pc
        /\ time_since_output > StagnationSecs
        /\ continue_count < ContinueCeiling
        /\ ~check_all_tasks_completed(md_file)
        /\ ~is_claude_running(buffer)
        /\ check_usage_limit(buffer, now) = NoNumber
        /\ ~check_bypass_permissions_prompt(buffer)
        /\ ~SameAsLastTwo(response_history, buffer))
       => /\ sent' = <<CONTINUE, CR>>
          /\ continues_written' = continues_written + 1
          /\ continue_count' = continue_count + 1
          /\ output_buffer' = <<>>
          /\ last_output_age' = 0
          /\ child' = child
          /\ pc' = "loop"]_vars

\* a Continue has just been injected on a window that held text, in a session
\* that has injected one before
C4_Witness ==
    /\ pc = "loop"
    /\ sent = <<CONTINUE, CR>>
    /\ continue_count = 2
    /\ Len(response_history) = 2
    /\ response_history[2] = PLAIN_ONE
    /\ child = "running"
    /\ output_buffer = <<>>

\* C5 as stated: a session ended as stuck has injected a Continue on each of
\* the three repetitions of the window.
C5_ThreeContinuesBeforeStuck ==
    status = STATUS_STUCK => continues_written >= 3

\* C5: of three stagnation checks in a row that see the same normalized
\* trailing window, the first two inject a Continue and the third ends the
\* session as stuck in place of a third injection: the check that finds its
\* snapshot equal to the last two entries of the history kills the child and
\* writes nothing, any other check of an incomplete document below the
\* ceiling injects a Continue, and a session ended as stuck holds three equal
\* entries and has injected at least two Continues.
C5_StuckReplacesThirdContinue ==
    /\ [][(pc = "stagnation" /\ pc' # pc /\ ~check_all_tasks_completed(md_file)) =>
            IF SameAsLastTwo(response_history, buffer)
            THEN /\ child' = "killed"
                 /\ pc' = "shutdown"
                 /\ status' = STATUS_STUCK
                 /\ sent' = <<>>
                 /\ continue_count' = continue_count
            ELSE continue_count < ContinueCeiling =>
                    /\ sent' = <<CONTINUE, CR>>
                    /\ child' = child
                    /\ pc' = "loop"]_vars
    /\ [](status = STATUS_STUCK =>
            /\ Len(response_history) = 3
            /\ response_history[1] = response_history[2]
            /\ response_history[2] = response_history[3]
            /\ continues_written >= 2)

\* a session ended as stuck after two Continues on the same text
C5_Witness ==
    /\ status = STATUS_STUCK
    /\ child = "killed"
    /\ continues_written = 2
    /\ response_history = <<PLAIN_ONE, PLAIN_ONE, PLAIN_ONE>>


---------------------------------------------------------------------------
(* Properties of a session on a terminal                                   *)

\* C11: run never returns an error while the terminal is in raw mode: every
\* fatal condition met after raw mode was enabled restores the terminal
\* before the error surfaces.
C11_NoErrorReturnInRawMode ==
    pc = "failed" => ~raw_mode

\* C13: the process never exits on an operator interrupt with raw mode
\* enabled: the interrupt restores the terminal mode before the exit, in
\* whatever state the loop is.
C13_NoInterruptExitInRawMode ==
    pc = "exited" => ~raw_mode

\* C14: every way out of run after the child was spawned leaves the child
\* terminated and the handle on its input released; none leaves the child
\* running.
C14_NoExitLeavesChildRunning ==
    pc \in {"done", "failed", "exited"} =>
        /\ child # "running"
        /\ writer # "open"

---------------------------------------------------------------------------
(* Properties of the locks                                                 *)

\* C12: the supervisor thread never holds more than one lock at a time: in
\* every reachable state it holds at most one of the locks on the output
\* window, the last-output timestamp, the continue counter, the status and
\* the response history, status updates and stagnation handling included.
C12_SupervisorHoldsAtMostOneLock ==
    Cardinality(held) <= 1

---------------------------------------------------------------------------
(* Properties of the stagnation handling                                   *)

\* C15: the stagnation handling asks the completion oracle first, then the
\* repetition detector, then the ceiling: when the oracle says complete the
\* child is killed and the loop stops, with history and counter unchanged
\* and nothing written; the detector records only when the document is
\* incomplete; the counter is touched, and the ceiling looked at, only when
\* the detector did not report stuck.
C15_OracleThenDetectorThenCeiling ==
    [][(pc = "stagnation" /\ pc' # "stagnation") =>
          LET complete == check_all_tasks_completed(md_file)
              stuck == history_stuck(response_history')
          IN  /\ complete =>
                    /\ child' = "killed"
                    /\ pc' = "shutdown"
                    /\ status' = STATUS_ALL_DONE
                    /\ response_history' = response_history
                    /\ continue_count' = continue_count
                    /\ sent' = <<>>
              /\ response_history' # response_history => ~complete
              /\ ~complete =>
                    response_history' = pushed_history(response_history, buffer)
              /\ (~complete /\ stuck) =>
                    /\ child' = "killed"
                    /\ pc' = "shutdown"
                    /\ status' = STATUS_STUCK
                    /\ continue_count' = continue_count
                    /\ sent' = <<>>
              /\ (continue_count' # continue_count \/ status' = STATUS_CEILING) =>
                    ~complete /\ ~stuck
    ]_vars

\* the oracle reports complete at a stagnation check that follows a recorded
\* one: the child is killed, the recorded entry is all the history holds
C15_Witness ==
    /\ status = STATUS_ALL_DONE
    /\ child = "killed"
    /\ Len(response_history) = 1
    /\ continue_count = 1

\* C16: the response history never holds more than 3 entries; it changes
\* only in a stagnation check, by one entry pushed at the end, the oldest
\* dropped when that makes four; and a check reports stuck exactly when the
\* history, after its push, is three equal entries.
C16_HistoryOfThree ==
    /\ [](Len(response_history) <= 3)
    /\ [][response_history' # response_history =>
             LET entry == normalized_response(buffer)
             IN  /\ pc = "stagnation"
                 /\ pc' # "stagnation"
                 /\ response_history' =
                       IF Len(response_history) < 3
                       THEN Append(response_history, entry)
                       ELSE SubSeq(response_history, 2, 3) \o <<entry>>
       ]_vars
    /\ [][(pc = "stagnation" /\ pc' # "stagnation") =>
             (status' = STATUS_STUCK <=>
                 /\ response_history' # response_history
                 /\ Len(response_history') = 3
                 /\ response_history'[1] = response_history'[2]
                 /\ response_history'[2] = response_history'[3])
       ]_vars

\* a fourth check, not stuck, has pushed onto a full history: the counter
\* counts four checks and the history holds three entries
C16_Witness ==
    /\ continue_count = 4
    /\ Len(response_history) = 3
    /\ status = STATUS_WORKING

\* C17: a tick enters the stagnation handling only if more than 60 s have
\* passed since the latest of the last byte from the child, the last relayed
\* key not starting with ESC and the last command of the supervisor, and
\* "esc to interrupt" is absent, in any letter case, from the last 200
\* characters of the snapshot; relaying a key that starts with ESC leaves
\* the timestamp alone.
C17_StagnationNeedsSilenceAndNoBusyMarker ==
    /\ [][(pc = "loop" /\ pc' = "stagnation") =>
             /\ since_event' > 60
             /\ ~Contains(to_lowercase(safe_suffix(buffer', 200)), ESC_TO_INTERRUPT)
       ]_vars
    /\ [][(pc = "loop" /\ user_rx # <<>> /\ user_rx' = Tail(user_rx)
              /\ Head(user_rx)[1] = ESC) =>
             last_output_age' = last_output_age
       ]_vars

\* a tick relays an arrow key after a silence of more than 60 s and enters
\* the stagnation handling all the same
C17_Witness ==
    /\ pc = "stagnation"
    /\ sent = <<KEY_UP>>
    /\ since_event > 60

---------------------------------------------------------------------------
(* Properties of the window across commands                                *)

\* the text s begins the text t
IsPrefix(s, t) == Len(s) <= Len(t) /\ SubSeq(t, 1, Len(s)) = s

\* C18: every command of the supervisor (a Continue, the acceptance) clears
\* the window, so the window holds what the child has printed since the
\* last command and nothing older; an acceptance or a usage-limit wait is
\* therefore always caused by a prompt or a notice printed after the last
\* command: one occurrence causes at most one of them.
C18_WindowClearedOnEveryCommand ==
    /\ [][sent' \in {<<CONTINUE, CR>>, <<ACCEPT, CR>>} => output_buffer' = <<>>]_vars
    /\ [](output_buffer = Flatten(received))
    /\ [][sent' = <<ACCEPT, CR>> =>
             /\ check_bypass_permissions_prompt(buffer)
             /\ IsPrefix(buffer, Flatten(received))
       ]_vars
    /\ [][(pc # "waiting" /\ pc' = "waiting") =>
             /\ check_usage_limit(buffer, now) # NoNumber
             /\ IsPrefix(buffer, Flatten(received))
       ]_vars

\* the prompt has been accepted and the window is empty again
C18_Witness ==
    /\ sent = <<ACCEPT, CR>>
    /\ status = STATUS_ACCEPTING
    /\ output_buffer = <<>>

---------------------------------------------------------------------------
(* Properties of the end of the child                                      *)

\* C19: once the child process has exited the supervisor writes no further
\* command, neither a Continue nor an acceptance, to the child's input.
C19_NoCommandAfterChildExit ==
    child = "exited" => sent \notin {<<CONTINUE, CR>>, <<ACCEPT, CR>>}

---------------------------------------------------------------------------
(* Properties of the usage-limit wait                                      *)

\* C20: the usage-limit wait ends and the loop goes on: the countdown starts
\* at the whole seconds to the resume time (0 when that is not after now),
\* each sleep is of at most 30 s and takes as much off the remaining time,
\* which goes down to 0, so that the sleeps add up to the initial count;
\* then one Continue is written, the counter goes up by one and the window
\* and the timestamp are reset.
C20_WaitCountsDownAndResumes ==
    /\ [][(pc = "usage_limit" /\ pc' = "waiting") =>
             LET d == wait_until' - now'
             IN  /\ d <= 0 => remaining' = 0
                 /\ d > 0 => remaining' \in {d - 1, d}
       ]_vars
    /\ [][(pc = "waiting" /\ pc' = "waiting" /\ remaining' # remaining) =>
             /\ now' - now <= 30
             /\ now' - now = remaining - remaining'
             /\ remaining' < remaining
             /\ remaining' >= 0
       ]_vars
    /\ [](pc = "waiting" =>
             /\ remaining >= 0
             /\ wait_until - now - remaining \in {0, 1})
    /\ [][(pc = "waiting" /\ pc' # "waiting") =>
             /\ remaining = 0
             /\ pc' = "loop"
             /\ sent' = <<CONTINUE, CR>>
             /\ continues_written' = continues_written + 1
             /\ continue_count' = continue_count + 1
             /\ output_buffer' = <<>>
             /\ last_output_age' = 0
       ]_vars
    /\ (pc = "waiting") ~> (pc = "loop")

\* a wait of a whole day is over: the first wait ended at 3pm sharp, the
\* second notice named 3pm again, and 2880 sleeps later the second Continue
\* has been written
C20_Witness ==
    /\ sent = <<CONTINUE, CR>>
    /\ continue_count = 2
    /\ now = 54000 + SecondsPerDay
    /\ remaining = 0

---------------------------------------------------------------------------
(* Properties of the clock time of a usage-limit notice                    *)

\* C22: a clock-time expression is accepted only with an hour in 1..12 and
\* minutes in 0..59, and the hour of the resume time is the hour plus 12 for
\* pm unless the hour is 12, 0 for 12 am, and the hour itself otherwise: an
\* expression with hour 0 or an hour above 12 yields no detection.
C22_AcceptedHourIsOneToTwelve ==
    pc = "checked" /\ wait_until # NoNumber =>
        LET captures == time_pattern_captures(to_lowercase(safe_suffix(buffer, 2000)))
            hour == ParseU32(captures[1])
            minutes == MinutesOf(captures[2])
            resumed == (wait_until % 86400) \div 3600
        IN  /\ hour \in 1..12
            /\ minutes \in 0..59
            /\ resumed \in 0..23
            /\ resumed = IF captures[3] = "p" /\ hour # 12 THEN hour + 12
                         ELSE IF captures[3] = "a" /\ hour = 12 THEN 0
                         ELSE hour

---------------------------------------------------------------------------
(* Properties of the shutdown                                              *)

\* C21: whichever way the loop is left, the shutdown tells the input thread
\* to stop, then releases the handle on the child's input, then restores the
\* terminal mode if run had changed it, then joins the output thread, then
\* prints the summary; the summary comes only after the join and shows the
\* final value of the continue counter.
C21_ShutdownInOrder ==
    /\ [][(pc # "shutdown" /\ pc' = "shutdown") =>
             ~should_exit /\ writer = "open" /\ raw_mode = is_tty /\ summary = NoNumber
       ]_vars
    /\ [][(~should_exit /\ should_exit') =>
             writer = "open" /\ writer' = "open" /\ raw_mode' = is_tty
       ]_vars
    /\ [][(writer = "open" /\ writer' # "open") =>
             should_exit /\ raw_mode' = is_tty /\ reader' = reader
       ]_vars
    /\ [][(raw_mode /\ ~raw_mode') =>
             should_exit /\ writer = "dropped" /\ summary' = NoNumber
       ]_vars
    /\ [](pc \in {"joining", "done"} =>
             should_exit /\ writer = "dropped" /\ ~raw_mode)
    /\ [][(summary = NoNumber /\ summary' # NoNumber) =>
             /\ pc = "joining"
             /\ reader = "ended"
             /\ summary' = continue_count
             /\ pc' = "done"
       ]_vars
    /\ [](pc = "done" => summary = continue_count)

\* a session on a terminal that found its tasks completed has printed its
\* summary
C21_Witness ==
    /\ pc = "done"
    /\ is_tty
    /\ status = STATUS_ALL_DONE
    /\ summary = 1

---------------------------------------------------------------------------
(* Properties of what the supervisor gets to see                           *)

\* C24: no output of the child is erased unseen: when the supervisor clears
\* the window, everything in it was in the snapshot the supervisor has
\* classified in this tick.
C24_ClearedWindowWasClassified ==
    [][(output_buffer # <<>> /\ output_buffer' = <<>>) =>
          output_buffer = buffer
    ]_vars

---------------------------------------------------------------------------
(* Properties of the locks under contention                                *)

\* the supervisor thread is at a lock() on a lock another thread holds
SupervisorWaits ==
    /\ lock_ops # <<>>
    /\ Head(lock_ops)[1] = "lock"
    /\ Head(lock_ops)[2] \in reader_held \cup input_held

\* the output thread is at a lock() on a lock the supervisor holds
ReaderWaits ==
    \/ reader = "read" /\ "output_buffer" \in held
    \/ reader = "pushing" /\ "last_output_time" \in held

\* the input thread is at its lock() while the supervisor holds should_exit
InputWaits == input_thread = "polling" /\ "should_exit" \in held

\* C23: the locks cannot deadlock: no two threads ever wait for each other,
\* and a thread that is at a lock() on the window, the timestamp, the
\* counter, the status, the history or should_exit gets the lock in the
\* end, the output thread taking the timestamp inside the window's guard
\* and display_status the counter inside the status guard.
C23_NoDeadlockOnLocks ==
    /\ [](SupervisorWaits => ~ReaderWaits /\ ~InputWaits)
    /\ [](held \cap (reader_held \cup input_held) = {})
    /\ \A l \in Locks \cup {"should_exit"} :
          (lock_ops # <<>> /\ Head(lock_ops) = <<"lock", l>>) ~> (l \in held)
    /\ (reader = "read") ~> ("output_buffer" \in reader_held)
    /\ (reader = "pushing") ~> ("last_output_time" \in reader_held)
    /\ (input_thread = "polling") ~> (input_thread = "checking")

\* the supervisor waits at its snapshot for the window while the output
\* thread, inside the window's guard, has taken the timestamp
C23_Witness ==
    /\ SupervisorWaits
    /\ Head(lock_ops) = <<"lock", "output_buffer">>
    /\ reader = "stamping"
    /\ input_thread = "checking"

---------------------------------------------------------------------------
(* The backstop: a session whose child never exits, never shows the busy    *)
(* marker, never prints a usage limit or a prompt, and whose document is    *)
(* never complete.  The child prints plain text, a window's worth at a      *)
(* time, as often and for as long as it likes.                              *)

\* a read that fills the whole window with plain text
FLOOD_TEXT == Repeating(WindowCap, <<"a", "b", "c">>)

\* the output thread pushes a chunk that replaces the window (lines 249-266);
\* nothing in the output thread limits how often this happens
ReaderFloods ==
    /\ reader = "reading"
    /\ child = "running"
    /\ output_buffer' = push_output(output_buffer, FLOOD_TEXT)
    /\ received' = <<FLOOD_TEXT>>
    /\ last_output_age' = 0
    /\ sent' = <<>>
    /\ UNCHANGED <<continue_count, response_history, child, reader, user_rx, pc,
                   buffer, time_since_output, continues_written, summary,
                   status, docVars, clockVars>>
    /\ since_event' = 0
    /\ UNCHANGED <<termVars, lockVars>>

NextBackstop ==
    \/ Startup
    \/ TickBegin
    \/ HandleStagnation(ContinueCeiling + 1)
    \/ Idle
    \/ BeginShutdown
    \/ Shutdown
    \/ ReaderFloods
    \/ ReaderEnds
    \/ TimePasses

\* run's loop never blocks for more than its 100 ms sleep (line 420), the
\* clock advances during every sleep, and the output thread sees end of file
\* once the child is killed.  TickBegin can be taken exactly when pc = "loop"
\* and leaves it, and the stagnation branch exactly when pc = "stagnation"
\* (the count is at most the ceiling there), so their weak fairness is that
\* run stays at neither place for ever.
TickFair == []<>(pc # "loop")

StagnationFair == []<>(pc # "stagnation")

SpecBackstop ==
    /\ Init
    /\ [][NextBackstop]_vars
    /\ WF_vars(Startup)
    /\ TickFair
    /\ StagnationFair
    /\ WF_vars(Idle)
    /\ WF_vars(BeginShutdown)
    /\ WF_vars(Shutdown)
    /\ WF_vars(ReaderEnds)
    /\ SF_vars(TimePasses)

\* the stagnation branch is entered only with a count it can act on
StagnationBranchCanStep == pc = "stagnation" => continue_count <= ContinueCeiling

\* the run has ended with the child killed
BackstopStopped == pc = "done" /\ child = "killed"

====
